---- MODULE Spec2Model ----
(***************************************************************************)
(* Download orchestration and progress streaming of the video downloader.  *)
(*                                                                         *)
(*   pages/api/download-progress.ts  the server-sent-event download        *)
(*   pages/api/video-info.ts         the download-file endpoint (l.289-)   *)
(*   unnamed/part_001                the stream-download endpoint          *)
(*   utils/cookies.ts                credential resolver and retry wrapper *)
(*                                                                         *)
(* Numbers.  The handler works on JavaScript doubles; the model uses exact *)
(* integers.  A size is held in units of 1/MBUnit megabyte, a percentage   *)
(* in units of 1/PctUnit percent, and a quotient that is only ever floored *)
(* (combinedProgress, lastSentProgress) as a fraction [n, d].              *)
(***************************************************************************)
EXTENDS Integers, Sequences, FiniteSets, TLC

(***************************************************************************)
(* Bounds of the model.                                                    *)
(***************************************************************************)
MaxChunks == 3
MaxHeartbeats == 1

(***************************************************************************)
(* Representation of numbers.                                              *)
(***************************************************************************)
MBUnit == 1024
PctUnit == 2

Abs(x) == IF x < 0 THEN 0 - x ELSE x
Frac(n, d) == [n |-> n, d |-> d]
Floor(q) == q.n \div q.d

VARIABLES
  \* ---- the retrieval subprocess and the staging directory ----
  procState,         \* "running" | "spawnfail" | "exited" | "closed"
  exitCode,          \* exit code of the subprocess; SigCode when killed by a signal
  killSent,          \* proc.kill() delivered a signal to a live subprocess
  chunks,            \* number of output chunks handed to the data listeners
  lastOutput,        \* the chunk handed to a data listener most recently
  fileExists,        \* fs.existsSync(tempFilePath)
  fileLate,          \* the subprocess wrote its output, not yet visible on disk
  unlinks,           \* number of removals of the staging file
  \* ---- download-progress.ts: locals of one request ----
  firstFileSize, secondFileSize, currentFileProgress, firstFileComplete,
  lastSentProgress, accumulatedMB, isMerging,
  sizeMB,            \* the last value computed at lines 170-177
  combinedProgress,  \* the last value computed at line 208
  mergeTimers,       \* number of running mergeUpdateInterval timers
  heartbeats,        \* number of timer firings so far
  downloadSuccess,
  closePc,           \* position of the async 'close' listener: "idle" | "polling" | "done"
  attempts,
  errorHandled,      \* the 'error' listener of the subprocess has run
  resEnded,          \* res.end() was called
  clientGone,        \* req emitted 'close'
  events             \* the events written by sendEvent, in order

procVars == <<procState, exitCode, killSent, chunks, lastOutput, fileExists, fileLate,
              unlinks>>
parseVars == <<firstFileSize, secondFileSize, currentFileProgress, firstFileComplete,
               lastSentProgress, accumulatedMB, sizeMB, combinedProgress>>
dpVars == <<parseVars, isMerging, mergeTimers, heartbeats, downloadSuccess, closePc,
            attempts, errorHandled, resEnded, clientGone, events>>

VARIABLES
  df,                \* download-file endpoint (video-info.ts 297-440): one request
  sd,                \* stream-download endpoint (part_001): one staged request
  ck,                \* executeWithCookieRetry (cookies.ts): one call
  vi,                \* video-info endpoint (video-info.ts 80-287): one request
  neg,               \* format negotiation of one download request
                     \* (download-progress.ts 31-125, part_001 27-126)
  dfq,               \* download-file endpoint (video-info.ts 297-340): the path check
  stg,               \* the staging paths of two download requests
  two,               \* the progress state of two download-progress requests
  ds,                \* stream-download endpoint (part_001 215-255): direct streaming
  mrg                \* the merge line of the subprocess of a merge plan

reqVars == <<dfq, stg, two, ds, mrg>>
notDP == <<df, sd, ck, vi, neg, reqVars>>
vars == <<procVars, dpVars, df, sd, ck, vi, neg, reqVars>>

(***************************************************************************)
(* Output chunks of the subprocess.  A chunk is described by what the      *)
(* patterns of the handler can see in it:                                  *)
(*   pct     the number in "[download] <pct>%", in 1/PctUnit percent;      *)
(*           NoNum when the text has no such part                          *)
(*   size    the number in "of [~]<size><unit>"; NoNum when absent         *)
(*   unit    the letters that follow the size                              *)
(*   merger  the text contains "[Merger]" or "Merging formats"             *)
(*   err     the text contains "ERROR:" or "Conversion failed"             *)
(***************************************************************************)
NoNum == 0 - 1

Chunk(pct, size, unit, merger, err) ==
  [pct |-> pct, size |-> size, unit |-> unit, merger |-> merger, err |-> err]

Line(pct, size, unit) == Chunk(pct, size, unit, FALSE, FALSE)

NoOutput == Chunk(NoNum, NoNum, "", FALSE, FALSE)

\* String.prototype.toLowerCase on the unit spellings that occur
ToLowerCase(u) ==
  CASE u \in {"MiB", "mib", "MIB"} -> "mib"
    [] u \in {"KiB", "kib", "KIB"} -> "kib"
    [] u \in {"GiB", "gib", "GIB"} -> "gib"
    [] u \in {"B", "b"} -> "b"
    [] OTHER -> u

ProgressMatch_Always(output) == TRUE

\* /\[download\]\s+(\d+\.?\d*)%/
ProgressMatch(output) == output.pct # NoNum

\* /of\s+(~)?(\d+\.?\d*)(MiB|KiB|GiB)/i
SizeMatch(output) ==
  /\ output.size # NoNum
  /\ ToLowerCase(output.unit) \in {"mib", "kib", "gib"}

SizeMB_Decimal(unit, sizeValue) ==
  IF unit = "gib" THEN (sizeValue * 1000) * MBUnit
  ELSE IF unit = "kib" THEN (sizeValue * MBUnit) \div 1000
  ELSE sizeValue * MBUnit

\* lines 166-177: the size in megabytes (in 1/MBUnit MB)
SizeMB(unit, sizeValue) ==
  IF unit = "gib" THEN (sizeValue * 1024) * MBUnit
  ELSE IF unit = "kib" THEN (sizeValue * MBUnit) \div 1024
  ELSE sizeValue * MBUnit

SizeChanged_AnyDifference(size, first) == size # first

\* line 184: Math.abs(sizeMB - firstFileSize) > 0.1
SizeChanged(size, first) == Abs(size - first) * 10 > MBUnit

CombinedProgress_NoBank(first, second, complete, acc, progress) ==
  LET totalSize == IF complete THEN first + second ELSE first
      totalDownloaded == IF complete THEN second * progress ELSE first * progress
  IN IF totalSize > 0 THEN Frac(totalDownloaded, PctUnit * totalSize)
     ELSE Frac(0, 1)

\* lines 198-208: combinedProgress from the tracked sizes
CombinedProgress(first, second, complete, acc, progress) ==
  LET totalSize == IF complete THEN first + second ELSE first
      \* totalDownloaded, in 1/(100 * PctUnit) of a size unit
      totalDownloaded == IF complete THEN acc * (100 * PctUnit) + second * progress
                         ELSE first * progress
  IN IF totalSize > 0 THEN Frac(totalDownloaded, PctUnit * totalSize)
     ELSE Frac(0, 1)

ShouldSend_AnyChange(roundedProgress, last) == roundedProgress # Floor(last)

\* line 212: roundedProgress > Math.floor(lastSentProgress)
ShouldSend(roundedProgress, last) == roundedProgress > Floor(last)

(***************************************************************************)
(* sendEvent (lines 134-141).  delivered records whether the connection    *)
(* was still open when the event was written.                              *)
(***************************************************************************)
Ev(name, progress, message) ==
  [event |-> name, progress |-> progress, message |-> message,
   delivered |-> ~clientGone, filePath |-> "", filename |-> ""]

SendEvent(evs, name, progress, message) == Append(evs, Ev(name, progress, message))

MsgProcessing == "Download failed during processing"
MsgMerge == "Download failed during merge"
MsgCode == "Download failed with error code"
MsgNotFound == "Download completed but file not found"
MsgSpawn == "spawn error"
MsgMerging == "Merging video and audio"
MsgStillMerging == "Still merging"
MsgComplete == "Download complete! Starting browser download..."

\* the data of the `complete` event (lines 294-299)
Complete ==
  [Ev("complete", 0, MsgComplete) EXCEPT !.filePath = "tempFilePath",
                                         !.filename = "sanitizedTitle.extension"]

IsTerminal(e) == e.event \in {"complete", "error"}

(***************************************************************************)
(* parseProgress (lines 156-222), applied to one chunk; evs is the event   *)
(* list as the calling listener has left it.                               *)
(***************************************************************************)
ParseProgress(output, evs) ==
  IF ProgressMatch(output) /\ SizeMatch(output)
  THEN LET progress == output.pct
           unit == ToLowerCase(output.unit)
           size == SizeMB(unit, output.size)
           isFirst == firstFileSize = 0
           isSecond == ~isFirst /\ ~firstFileComplete /\ SizeChanged(size, firstFileSize)
           first == IF isFirst THEN size ELSE firstFileSize
           complete == firstFileComplete \/ isSecond
           second == IF isSecond THEN size ELSE secondFileSize
           acc == IF isSecond THEN firstFileSize ELSE accumulatedMB
           combined == CombinedProgress(first, second, complete, acc, progress)
           roundedProgress == Floor(combined)
           send == ShouldSend(roundedProgress, lastSentProgress)
       IN /\ sizeMB' = size
          /\ firstFileSize' = first
          /\ firstFileComplete' = complete
          /\ secondFileSize' = second
          /\ accumulatedMB' = acc
          /\ currentFileProgress' = progress
          /\ combinedProgress' = combined
          /\ lastSentProgress' = IF send THEN combined ELSE lastSentProgress
          /\ events' = IF send THEN SendEvent(evs, "progress", roundedProgress, "")
                       ELSE evs
  ELSE /\ UNCHANGED parseVars
       /\ events' = evs

(***************************************************************************)
(* The merge marker (lines 231-244 and 260-273).                           *)
(***************************************************************************)
MergeDetected_EveryMarker(output) == output.merger

\* lines 231-232 and 260-261
MergeDetected(output) == output.merger /\ ~isMerging

DetectMerging(output, evs) ==
  IF MergeDetected(output) THEN SendEvent(evs, "merging", 0, MsgMerging) ELSE evs

MergeState(output) ==
  /\ isMerging' = (isMerging \/ output.merger)
  /\ mergeTimers' = IF MergeDetected(output) THEN mergeTimers + 1 ELSE mergeTimers

ErrorDetected_Never(output) == FALSE

\* line 254
ErrorDetected(output) == output.err

(***************************************************************************)
(* The chunks the subprocess writes in the lifecycle specification.        *)
(***************************************************************************)
LifecycleChunks ==
  { Line(100, 10, "MiB"),                      \* [download] 50.0% of 10.00MiB
    Chunk(NoNum, NoNum, "", TRUE, FALSE),      \* [Merger] Merging formats into ...
    Chunk(NoNum, NoNum, "", FALSE, TRUE) }     \* ERROR: ...

\* the chunks without a progress line
MarkerChunks ==
  { Chunk(NoNum, NoNum, "", TRUE, FALSE),      \* [Merger] Merging formats into ...
    Chunk(NoNum, NoNum, "", FALSE, TRUE) }     \* ERROR: ...

(***************************************************************************)
(* The lines the subprocess writes in the parser specification.            *)
(***************************************************************************)
PctTexts == {NoNum, 91, 100, 200}          \* no percent, 45.5%, 50.0%, 100%

SizeTexts ==
  { <<NoNum, "">>, <<50, "MiB">>, <<10, "MiB">>, <<90, "MiB">>, <<2, "GiB">>,
    <<10290, "KiB">>, <<10350, "KiB">>, <<512, "B">>, <<50, "mib">> }

ProgressChunks == { Line(p, t[1], t[2]) : p \in PctTexts, t \in SizeTexts }

DataEnabled ==
  /\ procState \in {"running", "exited"}
  /\ chunks < MaxChunks

\* the body of proc.stdout.on('data') (lines 226-247) for one chunk
OnStdout(output) ==
  /\ DataEnabled
  /\ chunks' = chunks + 1
  /\ lastOutput' = output
  /\ MergeState(output)
  /\ ParseProgress(output, DetectMerging(output, events))
  /\ UNCHANGED <<procState, exitCode, killSent, fileExists, fileLate, unlinks,
                 heartbeats, downloadSuccess, closePc, attempts, errorHandled,
                 resEnded, clientGone>>

\* proc.stdout.on('data') (lines 226-247)
StdoutData(Chunks) ==
  \E output \in Chunks :
    /\ OnStdout(output)
    /\ UNCHANGED notDP

\* the body of proc.stderr.on('data') (lines 249-276) for one chunk
OnStderr(output) ==
  /\ DataEnabled
  /\ chunks' = chunks + 1
  /\ lastOutput' = output
  /\ MergeState(output)
  /\ LET evs1 == IF ErrorDetected(output)
                 THEN SendEvent(events, "error", 0, MsgProcessing)
                 ELSE events
     IN ParseProgress(output, DetectMerging(output, evs1))
  /\ UNCHANGED <<procState, exitCode, killSent, fileExists, fileLate, unlinks,
                 heartbeats, downloadSuccess, closePc, attempts, errorHandled,
                 resEnded, clientGone>>

\* proc.stderr.on('data') (lines 249-276)
StderrData(Chunks) ==
  \E output \in Chunks :
    /\ OnStderr(output)
    /\ UNCHANGED notDP

\* the setInterval callback (lines 237-239 and 266-268)
MergeHeartbeat ==
  /\ mergeTimers > 0
  /\ heartbeats < MaxHeartbeats
  /\ heartbeats' = heartbeats + 1
  /\ events' = SendEvent(events, "merging", 0, MsgStillMerging)
  /\ UNCHANGED <<procVars, parseVars, isMerging, mergeTimers, downloadSuccess, closePc,
                 attempts, errorHandled, resEnded, clientGone>>
  /\ UNCHANGED notDP

(***************************************************************************)
(* The subprocess and the file system, as the handler can observe them.    *)
(***************************************************************************)
SigCode == 0 - 1          \* code === null: terminated by a signal
SpawnCode == 0 - 2        \* 'close' after a failed spawn

\* the subprocess writes its output file (-o tempFilePath); the file is on
\* disk at once or becomes visible later (lines 282-288 wait for that)
ProcWrite ==
  /\ procState = "running"
  /\ ~fileExists /\ ~fileLate
  /\ \/ fileExists' = TRUE /\ UNCHANGED fileLate
     \/ fileLate' = TRUE /\ UNCHANGED fileExists
  /\ UNCHANGED <<procState, exitCode, killSent, chunks, lastOutput, unlinks, dpVars>>
  /\ UNCHANGED notDP

\* the file becomes visible: before 'close' is delivered or, at the latest,
\* while the wait loop of lines 285-288 runs
FileAppears ==
  /\ fileLate
  /\ procState \in {"running", "exited"} \/ closePc = "polling"
  /\ fileLate' = FALSE
  /\ fileExists' = TRUE
  /\ UNCHANGED <<procState, exitCode, killSent, chunks, lastOutput, unlinks, dpVars>>
  /\ UNCHANGED notDP

\* the subprocess terminates: by itself with a code, or by the signal
ProcExit ==
  /\ procState = "running"
  /\ procState' = "exited"
  /\ \E code \in {0, 1, 2, SigCode} :
       /\ code = SigCode => killSent
       /\ exitCode' = code
  /\ UNCHANGED <<killSent, chunks, lastOutput, fileExists, fileLate, unlinks, dpVars>>
  /\ UNCHANGED notDP

\* fs.unlinkSync(tempFilePath) guarded by fs.existsSync(tempFilePath)
UnlinkIfExists(cond) ==
  /\ fileExists' = IF cond /\ fileExists THEN FALSE ELSE fileExists
  /\ unlinks' = IF cond /\ fileExists THEN unlinks + 1 ELSE unlinks

(***************************************************************************)
(* proc.on('close') (lines 280-316).                                       *)
(***************************************************************************)
maxAttempts == 50

\* lines 290-303, after the wait loop
FinishSuccessPath_NoCheck ==
  /\ downloadSuccess' = TRUE
  /\ events' = Append(events, Complete)
  /\ resEnded' = TRUE
  /\ closePc' = "done"

\* lines 290-303 and 315
FinishSuccessPath ==
  /\ IF fileExists
     THEN /\ downloadSuccess' = TRUE
          /\ events' = Append(events, Complete)
     ELSE /\ UNCHANGED downloadSuccess
          /\ events' = SendEvent(events, "error", 0, MsgNotFound)
  /\ resEnded' = TRUE
  /\ closePc' = "done"

OnClose ==
  /\ \/ procState = "exited"
     \/ procState = "spawnfail" /\ errorHandled
  /\ procState' = "closed"
  /\ exitCode' = IF procState = "spawnfail" THEN SpawnCode ELSE exitCode
  /\ mergeTimers' = 0                       \* proc.once('close', clearInterval)
  /\ LET code == exitCode' IN
     IF code = 0
     THEN /\ IF ~fileExists /\ attempts < maxAttempts
             THEN /\ closePc' = "polling"
                  /\ UNCHANGED <<downloadSuccess, events, resEnded>>
             ELSE FinishSuccessPath
          /\ UNCHANGED <<fileExists, unlinks>>
     ELSE /\ events' = SendEvent(events, "error", 0,
                                 IF code = 1 THEN MsgMerge ELSE MsgCode)
          /\ UnlinkIfExists(TRUE)
          /\ resEnded' = TRUE
          /\ closePc' = "done"
          /\ UNCHANGED downloadSuccess
  /\ UNCHANGED <<killSent, chunks, lastOutput, fileLate, parseVars, isMerging,
                 heartbeats, attempts, errorHandled, clientGone>>
  /\ UNCHANGED notDP

\* the 100 ms timer of line 286 fires; lines 287, 285 and then 290-315
PollTick ==
  /\ closePc = "polling"
  /\ attempts' = attempts + 1
  /\ IF ~fileExists /\ attempts' < maxAttempts
     THEN UNCHANGED <<closePc, downloadSuccess, events, resEnded>>
     ELSE FinishSuccessPath
  /\ UNCHANGED <<procVars, parseVars, isMerging, mergeTimers, heartbeats,
                 errorHandled, clientGone>>
  /\ UNCHANGED notDP

OnProcError_Silent ==
  /\ procState = "spawnfail"
  /\ ~errorHandled
  /\ errorHandled' = TRUE
  /\ UNCHANGED <<procState, exitCode, killSent, chunks, lastOutput, fileExists,
                 fileLate, unlinks, parseVars, isMerging, mergeTimers, heartbeats,
                 downloadSuccess, closePc, attempts, resEnded, clientGone, events>>
  /\ UNCHANGED notDP

\* proc.on('error') (lines 318-326)
OnProcError ==
  /\ procState = "spawnfail"
  /\ ~errorHandled
  /\ errorHandled' = TRUE
  /\ events' = SendEvent(events, "error", 0, MsgSpawn)
  /\ UnlinkIfExists(TRUE)
  /\ resEnded' = TRUE
  /\ UNCHANGED <<procState, exitCode, killSent, chunks, lastOutput, fileLate, parseVars,
                 isMerging, mergeTimers, heartbeats, downloadSuccess, closePc, attempts,
                 clientGone>>
  /\ UNCHANGED notDP

\* ChildProcess.kill(): a signal goes out only while the handle is alive
Kill == killSent' = (killSent \/ procState = "running")

CleanupOnClose_Always == TRUE

\* line 332
CleanupOnClose == ~downloadSuccess

\* req.on('close') (lines 328-336)
OnReqClose ==
  /\ ~clientGone
  /\ clientGone' = TRUE
  /\ Kill
  /\ UnlinkIfExists(CleanupOnClose)
  /\ UNCHANGED <<procState, exitCode, chunks, lastOutput, fileLate, parseVars,
                 isMerging, mergeTimers, heartbeats, downloadSuccess, closePc, attempts,
                 errorHandled, resEnded, events>>
  /\ UNCHANGED notDP

(***************************************************************************)
(* The download-file endpoint (video-info.ts, lines 297-440), from line    *)
(* 330 on: the path was accepted and the staging file exists.              *)
(*   streamEnded, cleanupDone   the locals of lines 342-343                *)
(*   destroyed                  fileStream.destroyed                       *)
(*   fsError, fsClose, resFinish, resClose, reqClose                       *)
(*                              the event was emitted (each at most once)  *)
(*   timers                     pending setTimeout(() => cleanup(..), 2000)*)
(*   pc                         position of the cleanup body               *)
(*   calls, bodies              invocations of cleanup / entries of its    *)
(*                              body (after the guard of line 346)         *)
(*   file, unlinks, attempts    the staging file, its removals and the     *)
(*                              calls of unlinkAsync                       *)
(*   fired                      a termination trigger has fired            *)
(***************************************************************************)
InitDf ==
  df = [streamEnded |-> FALSE, cleanupDone |-> FALSE, destroyed |-> FALSE,
        fsError |-> FALSE, fsClose |-> FALSE, resFinish |-> FALSE,
        resClose |-> FALSE, reqClose |-> FALSE, timers |-> 0, pc |-> "none",
        calls |-> 0, bodies |-> 0, file |-> TRUE, unlinks |-> 0, attempts |-> 0,
        fired |-> FALSE]

CleanupGuard_Never(s) == FALSE

\* line 346 / part_001 line 172
CleanupGuard(s) == s.cleanupDone

\* cleanup (lines 345-357), up to the await of line 360
DfCleanup(s) ==
  IF CleanupGuard(s)
  THEN [s EXCEPT !.calls = @ + 1]
  ELSE [s EXCEPT !.calls = @ + 1, !.cleanupDone = TRUE, !.bodies = @ + 1,
                 !.destroyed = TRUE, !.pc = "wait"]

\* setTimeout(() => cleanup(...), 2000)
DfLater(s) == [s EXCEPT !.timers = @ + 1]

DfStep(new) ==
  /\ df' = new
  /\ UNCHANGED <<procVars, dpVars, sd, ck, vi, neg, reqVars>>

\* fileStream.on('error') (lines 385-391)
DfStreamError ==
  /\ ~df.fsError /\ ~df.fsClose /\ ~df.streamEnded /\ ~df.destroyed
  /\ DfStep(DfCleanup([df EXCEPT !.fsError = TRUE, !.fired = TRUE]))

DfStreamEnd_Cleanup ==
  /\ ~df.streamEnded /\ ~df.fsError /\ ~df.destroyed /\ ~df.resClose
  /\ DfStep(DfCleanup([df EXCEPT !.streamEnded = TRUE]))

\* fileStream.on('end') (lines 394-397)
DfStreamEnd ==
  /\ ~df.streamEnded /\ ~df.fsError /\ ~df.destroyed /\ ~df.resClose
  /\ DfStep([df EXCEPT !.streamEnded = TRUE])

\* fileStream.on('close') (lines 399-405)
DfStreamClose ==
  /\ ~df.fsClose
  /\ df.streamEnded \/ df.fsError \/ df.destroyed
  /\ LET s == [df EXCEPT !.fsClose = TRUE, !.destroyed = TRUE] IN
     DfStep(IF s.streamEnded THEN DfLater([s EXCEPT !.fired = TRUE]) ELSE s)

\* res.on('finish') (lines 411-414)
DfResFinish ==
  /\ df.streamEnded /\ ~df.resFinish /\ ~df.resClose
  /\ DfStep(DfLater([df EXCEPT !.resFinish = TRUE, !.fired = TRUE]))

\* res.on('close') (lines 416-425)
DfResClose ==
  /\ ~df.resClose
  /\ LET s == [df EXCEPT !.resClose = TRUE, !.fired = TRUE] IN
     DfStep(IF ~s.streamEnded THEN DfCleanup(s) ELSE DfLater(s))

\* req.on('close') (lines 428-433)
DfReqClose ==
  /\ ~df.reqClose
  /\ LET s == [df EXCEPT !.reqClose = TRUE, !.fired = TRUE] IN
     DfStep(IF ~s.streamEnded THEN DfCleanup(s) ELSE s)

\* a timer of lines 403, 413 or 423 fires
DfTimer ==
  /\ df.timers > 0
  /\ DfStep(DfCleanup([df EXCEPT !.timers = @ - 1]))

\* cleanup after the await of line 360 (lines 362-381); unlinkAsync may fail
DfCleanupResume ==
  /\ df.pc = "wait"
  /\ \/ /\ df.file
        /\ DfStep([df EXCEPT !.file = FALSE, !.unlinks = @ + 1, !.attempts = @ + 1,
                             !.pc = "done"])
     \/ /\ df.file
        /\ DfStep([df EXCEPT !.attempts = @ + 1, !.pc = "retry"])
     \/ /\ ~df.file
        /\ DfStep([df EXCEPT !.pc = "done"])

DfRetry_Again ==
  /\ df.pc = "retry"
  /\ \/ /\ df.file
        /\ DfStep([df EXCEPT !.file = FALSE, !.unlinks = @ + 1, !.attempts = @ + 1,
                             !.pc = "done"])
     \/ /\ df.file
        /\ DfStep([df EXCEPT !.attempts = @ + 1])

\* the retry timer of lines 371-380 fires
DfRetry ==
  /\ df.pc = "retry"
  /\ \/ /\ df.file
        /\ DfStep([df EXCEPT !.file = FALSE, !.unlinks = @ + 1, !.attempts = @ + 1,
                             !.pc = "done"])
     \/ /\ df.file
        /\ DfStep([df EXCEPT !.attempts = @ + 1, !.pc = "done"])

(***************************************************************************)
(* The stream-download endpoint (part_001), staged path (lines 128-213 and *)
(* the catch block of lines 257-274).                                      *)
(*   phase      "download" (awaiting the promise of line 130),             *)
(*              "streaming" (lines 153-213 have run), "failed" (catch)     *)
(*   proc       "running" | "spawnfail" | "closed"; both endpoints spawn   *)
(*              the same binary (YT_DLP_PATH), so the spawn fails here     *)
(*              when it fails in download-progress                         *)
(*   written    the subprocess has written its output file once            *)
(***************************************************************************)
InitSd ==
  sd = [phase |-> "download", proc |-> procState, killSent |-> FALSE,
        written |-> FALSE, errorHandled |-> FALSE,
        cleanupDone |-> FALSE, destroyed |-> FALSE, fsError |-> FALSE,
        resFinish |-> FALSE, reqClose |-> FALSE, pc |-> "none",
        calls |-> 0, bodies |-> 0, file |-> FALSE, unlinks |-> 0, attempts |-> 0,
        fired |-> FALSE]

\* cleanup (part_001 lines 171-181), up to the await of line 184
SdCleanup(s) ==
  IF CleanupGuard(s)
  THEN [s EXCEPT !.calls = @ + 1]
  ELSE [s EXCEPT !.calls = @ + 1, !.cleanupDone = TRUE, !.bodies = @ + 1,
                 !.destroyed = TRUE, !.pc = "wait"]

SdStep(new) ==
  /\ sd' = new
  /\ UNCHANGED <<procVars, dpVars, df, ck, vi, neg, reqVars>>

\* the catch block (lines 257-274): remove the staging file if it exists
SdCatch(s) ==
  [s EXCEPT !.phase = "failed",
            !.file = FALSE,
            !.unlinks = IF s.file THEN @ + 1 ELSE @,
            !.attempts = IF s.file THEN @ + 1 ELSE @]

\* lines 153-213: the promise resolved, the file is piped to the response
SdStream(s) == [s EXCEPT !.phase = "streaming"]

\* the subprocess writes its output file
SdProcWrite ==
  /\ sd.proc = "running"
  /\ ~sd.file
  /\ SdStep([sd EXCEPT !.file = TRUE, !.written = TRUE])

\* proc.on('close') (lines 137-143) for an exit with the given code, and
\* the continuation of the awaiting handler
SdProcClose ==
  /\ \/ sd.proc = "running"
     \/ sd.proc = "spawnfail" /\ sd.errorHandled
  /\ \E code \in {0, 1} :
       /\ sd.proc = "spawnfail" => code # 0
       /\ LET s == [sd EXCEPT !.proc = "closed"] IN
          SdStep(IF s.phase # "download" THEN s
                 ELSE IF code = 0 THEN SdStream(s) ELSE SdCatch(s))

\* proc.on('error', reject) (line 145)
SdProcError ==
  /\ sd.proc = "spawnfail"
  /\ ~sd.errorHandled
  /\ LET s == [sd EXCEPT !.errorHandled = TRUE] IN
     SdStep(IF s.phase = "download" THEN SdCatch(s) ELSE s)

\* req.on('close'): the listener of lines 147-150 and, once streaming, the
\* listener of lines 204-207
SdReqClose ==
  /\ ~sd.reqClose
  /\ LET s == [sd EXCEPT !.reqClose = TRUE,
                         !.killSent = @ \/ sd.proc = "running"] IN
     SdStep(IF s.phase = "download" THEN SdCatch(s)
            ELSE IF s.phase = "streaming" THEN SdCleanup([s EXCEPT !.fired = TRUE])
            ELSE s)

\* res.on('finish') (lines 198-201)
SdResFinish ==
  /\ sd.phase = "streaming"
  /\ sd.file /\ ~sd.resFinish /\ ~sd.reqClose /\ ~sd.fsError /\ ~sd.destroyed
  /\ SdStep(SdCleanup([sd EXCEPT !.resFinish = TRUE, !.fired = TRUE]))

\* fileStream.on('error') (lines 159-164 and 210-213)
SdStreamError ==
  /\ sd.phase = "streaming"
  /\ ~sd.fsError /\ ~sd.destroyed /\ ~sd.resFinish
  /\ SdStep(SdCleanup([sd EXCEPT !.fsError = TRUE, !.fired = TRUE]))

\* cleanup after the await of line 184 (lines 186-194); unlinkAsync may fail
SdCleanupResume ==
  /\ sd.pc = "wait"
  /\ \/ /\ sd.file
        /\ SdStep([sd EXCEPT !.file = FALSE, !.unlinks = @ + 1, !.attempts = @ + 1,
                             !.pc = "done"])
     \/ /\ sd.file
        /\ SdStep([sd EXCEPT !.attempts = @ + 1, !.pc = "done"])
     \/ /\ ~sd.file
        /\ SdStep([sd EXCEPT !.pc = "done"])

(***************************************************************************)
(* utils/cookies.ts.  The project root holds any of the two cookie files;  *)
(* other processes may add or remove them at any time.                     *)
(***************************************************************************)
MaxFsChanges == 1

CookieNames == {"youtube-cookies.txt", "cookies.txt"}

NoPath == "null"

getCookiesFilePath_CookiesFirst(files) ==
  IF "cookies.txt" \in files THEN "cookies.txt"
  ELSE IF "youtube-cookies.txt" \in files THEN "youtube-cookies.txt"
  ELSE NoPath

\* getCookiesFilePath (lines 10-24), on the files that exist
getCookiesFilePath(files) ==
  IF "youtube-cookies.txt" \in files THEN "youtube-cookies.txt"
  ELSE IF "cookies.txt" \in files THEN "cookies.txt"
  ELSE NoPath

getCookiesArgs_Unforced(forceUseCookies, files) ==
  IF getCookiesFilePath(files) # NoPath
  THEN <<"--cookies", getCookiesFilePath(files)>>
  ELSE << >>

\* getCookiesArgs (lines 34-45)
getCookiesArgs(forceUseCookies, files) ==
  IF ~forceUseCookies THEN << >>
  ELSE IF getCookiesFilePath(files) # NoPath
       THEN <<"--cookies", getCookiesFilePath(files)>>
       ELSE << >>

\* hasCookiesFile (lines 50-52)
hasCookiesFile(files) == getCookiesFilePath(files) # NoPath

ArgsWithCookies_Appended(args, cookiesArgs) == args \o cookiesArgs

\* lines 117 and 150: [...args.slice(0, -1), ...cookiesArgs, args[args.length - 1]]
ArgsWithCookies(args, cookiesArgs) ==
  SubSeq(args, 1, Len(args) - 1) \o cookiesArgs \o <<args[Len(args)]>>

\* the messages a failed run can carry, and String.prototype.includes on them
ErrorTexts ==
  { "Command failed: Sign in to confirm your age",
    "Command failed: confirm you are not a bot",
    "Command failed: Video not available",
    "Command failed: HTTP Error 403",
    "spawn ENOENT" }

Includes(msg, phrase) ==
  <<msg, phrase>> \in
    { <<"Command failed: Sign in to confirm your age", "Sign in">>,
      <<"Command failed: confirm you are not a bot", "bot">>,
      <<"Command failed: Video not available", "not available">> }

NeedsAuth_Always(errorMsg) == TRUE

\* lines 141-143
NeedsAuth(errorMsg) ==
  Includes(errorMsg, "Sign in") \/ Includes(errorMsg, "bot")
    \/ Includes(errorMsg, "not available")

\* the argument lists executeWithCookieRetry is called with
ArgLists == { <<"URL">>, <<"-j", "URL">> }

NoError == [msg |-> "", run |-> 0]

(***************************************************************************)
(* One call of executeWithCookieRetry (lines 105-157).                     *)
(*   pc     "idle", "l109" (called), "l112" (cookiesExist is set),         *)
(*          "cookies" / "fallback" / "plain" / "retry" (awaiting the run   *)
(*          of line 118 / 124 / 135 / 151), "l149" (the re-check of line   *)
(*          147 passed), "returned", "thrown"                              *)
(*   cookiesArgs  the value of getCookiesArgs(true) at line 115 or 149     *)
(*   runs   the argument list of every executeCommand so far               *)
(*   errors the error of every run that failed, in order                   *)
(*   error  the error caught at line 120 or 137                            *)
(*   result the value returned, or the error thrown                        *)
(***************************************************************************)
NoCall ==
  [pc |-> "idle", args |-> << >>, files |-> {}, fsChanges |-> 0,
   cookiesExist |-> FALSE, cookiesArgs |-> << >>, runs |-> << >>,
   errors |-> << >>, error |-> NoError,
   output |-> "", usedCookies |-> FALSE, thrown |-> NoError]

InitCk == ck = NoCall

CkStep(new) ==
  /\ ck' = new
  /\ UNCHANGED <<procVars, dpVars, df, sd, vi, neg, reqVars>>

\* executeCommand (lines 65-89) rejects: the run started last has failed
Failed(c, msg) ==
  [c EXCEPT !.errors = Append(@, [msg |-> msg, run |-> Len(c.runs)])]

LastError(c) == c.errors[Len(c.errors)]

\* executeCommand (lines 65-89) is started with these arguments
Spawned(c, argv, pc) == [c EXCEPT !.runs = Append(@, argv), !.pc = pc]

Return(c, output, usedCookies) ==
  [c EXCEPT !.pc = "returned", !.output = output, !.usedCookies = usedCookies]

Throw(c, err) == [c EXCEPT !.pc = "thrown", !.thrown = err]

FallbackFailure_Latest(error, fallbackError) == fallbackError

\* lines 126-129: what is thrown when the fallback run fails too
FallbackFailure(error, fallbackError) == error

\* the call, with its arguments and the cookie files present at that time
CkCall ==
  /\ ck.pc = "idle"
  /\ \E args \in ArgLists, files \in SUBSET CookieNames :
       CkStep([ck EXCEPT !.pc = "l109", !.args = args, !.files = files])

\* a cookie file appears or disappears
CkFsChange ==
  /\ ck.pc \notin {"idle", "returned", "thrown"}
  /\ ck.fsChanges < MaxFsChanges
  /\ \E f \in CookieNames :
       CkStep([ck EXCEPT !.fsChanges = @ + 1,
                         !.files = IF f \in @ THEN @ \ {f} ELSE @ \cup {f}])

\* line 109
CkCheck ==
  /\ ck.pc = "l109"
  /\ CkStep([ck EXCEPT !.pc = "l112", !.cookiesExist = hasCookiesFile(ck.files)])

\* lines 112-118, or lines 134-135
CkFirstRun ==
  /\ ck.pc = "l112"
  /\ CkStep(IF ck.cookiesExist
            THEN LET cookiesArgs == getCookiesArgs(TRUE, ck.files) IN
                 Spawned([ck EXCEPT !.cookiesArgs = cookiesArgs],
                         ArgsWithCookies(ck.args, cookiesArgs), "cookies")
            ELSE Spawned(ck, ck.args, "plain"))

\* the run of line 118 ends (lines 119-124)
CkCookiesRunEnds ==
  /\ ck.pc = "cookies"
  /\ \/ CkStep(Return(ck, "stdout", TRUE))
     \/ \E msg \in ErrorTexts :
          LET c == Failed(ck, msg) IN
          CkStep(Spawned([c EXCEPT !.error = LastError(c)], ck.args, "fallback"))

\* the run of line 124 ends (lines 125-129)
CkFallbackRunEnds ==
  /\ ck.pc = "fallback"
  /\ \/ CkStep(Return(ck, "stdout", FALSE))
     \/ \E msg \in ErrorTexts :
          LET c == Failed(ck, msg) IN
          CkStep(Throw(c, FallbackFailure(c.error, LastError(c))))

\* the run of line 135 ends (lines 136-147 and 155)
CkPlainRunEnds ==
  /\ ck.pc = "plain"
  /\ \/ CkStep(Return(ck, "stdout", FALSE))
     \/ \E msg \in ErrorTexts :
          LET error == LastError(Failed(ck, msg))
              c == [Failed(ck, msg) EXCEPT !.error = error]
          IN CkStep(IF NeedsAuth(error.msg) /\ hasCookiesFile(ck.files)
                    THEN [c EXCEPT !.pc = "l149"]
                    ELSE Throw(c, error))

\* lines 148-151
CkRetry ==
  /\ ck.pc = "l149"
  /\ LET cookiesArgs == getCookiesArgs(TRUE, ck.files) IN
     CkStep(Spawned([ck EXCEPT !.cookiesArgs = cookiesArgs],
                    ArgsWithCookies(ck.args, cookiesArgs), "retry"))

\* the run of line 151 ends (line 152, or the rejection leaves the function)
CkRetryRunEnds ==
  /\ ck.pc = "retry"
  /\ \/ CkStep(Return(ck, "stdout", TRUE))
     \/ \E msg \in ErrorTexts :
          LET c == Failed(ck, msg) IN CkStep(Throw(c, LastError(c)))

(***************************************************************************)
(* Format negotiation of a download request: download-progress.ts lines    *)
(* 31-125 ("progress") and part_001 lines 27-126 ("stream").  Values of    *)
(* the request are JavaScript values; a format id is its characters.       *)
(***************************************************************************)
JsString(s) == [t |-> "string", v |-> s]
JsBoolean(b) == [t |-> "boolean", v |-> IF b THEN "true" ELSE "false"]
JsUndefined == [t |-> "undefined", v |-> ""]

Endpoints == {"progress", "stream"}

FormatIds ==
  { <<"1", "8">>, <<"1", "3", "7">>, <<"1", "4", "0">>, <<"2", "5", "1">>,
    <<"1", "4", "0", "0">> }

\* String.prototype.includes
StrIncludes(str, sub) ==
  \E i \in 1..(Len(str) - Len(sub) + 1) : SubSeq(str, i, i + Len(sub) - 1) = sub

Flags == {JsString("true"), JsString("false"), JsBoolean(TRUE), JsUndefined}

\* download-progress.ts line 38, part_001 line 36
UseCookies(endpoint, requiresCookies) ==
  IF endpoint = "progress"
  THEN requiresCookies = JsString("true")
  ELSE requiresCookies = JsBoolean(TRUE) \/ requiresCookies = JsString("true")

\* download-progress.ts lines 52-57, part_001 lines 56-61
CheckArgs(cookiesArgs) == cookiesArgs \o <<"-j", "-f", "formatId", "url">>

\* what execSync and JSON.parse of lines 59-60 (63-64) come to: execSync
\* throws, the output is no JSON, or data with its acodec and vcodec
Absent == "undefined"

Inspections ==
  { [result |-> r, acodec |-> Absent, vcodec |-> Absent] : r \in {"throws", "garbage"} }
    \cup [result : {"json"}, acodec : {Absent, "none", "mp4a.40.2"},
          vcodec : {Absent, "none", "avc1.64001F"}]

Truthy(x) == x # Absent

InspectedHasAudio_Present(data) == Truthy(data.acodec)

\* line 61 (65): data.acodec && data.acodec !== "none"
InspectedHasAudio(data) == Truthy(data.acodec) /\ data.acodec # "none"

\* line 62 (66): data.vcodec === "none" || !data.vcodec
InspectedIsAudio(data) == data.vcodec = "none" \/ ~Truthy(data.vcodec)

HeuristicIsAudio_Exact(formatId) ==
  formatId = <<"2", "5", "1">> \/ formatId = <<"1", "4", "0">>

\* line 68 (72)
HeuristicIsAudio(formatId) ==
  StrIncludes(formatId, <<"2", "5", "1">>) \/ StrIncludes(formatId, <<"1", "4", "0">>)

\* line 69 (73)
HeuristicHasAudio(endpoint, isCombined, isAudio) ==
  IF endpoint = "progress"
  THEN isCombined = JsString("true") \/ isAudio
  ELSE isCombined = JsBoolean(TRUE) \/ isCombined = JsString("true") \/ isAudio

FormatToDownload_Bare(hasAudio, formatId) == formatId

\* line 73 (77)
FormatToDownload(hasAudio, formatId) ==
  IF hasAudio THEN formatId ELSE formatId \o <<"+bestaudio">>

\* lines 78, 82, 95, 110 (81, 92, 108)
Extension(isAudio) == IF isAudio THEN "webm" ELSE "mp4"

PostProcessing_MergeAlways(isAudio, hasAudio) ==
  IF isAudio THEN << >>
  ELSE <<"--merge-output-format", "mp4", "--postprocessor-args",
         "ffmpeg:-c:v copy -c:a copy -movflags +faststart", "--no-part",
         "--concurrent-fragments", "4">>

PostProcessing_Always(isAudio, hasAudio) ==
  <<"--remux-video", "mp4", "--postprocessor-args",
    "ffmpeg:-c:v copy -c:a copy -movflags +faststart">>

\* the post-processing arguments of lines 103-104 and 118-121
\* (100-101 and 116-119)
PostProcessing(isAudio, hasAudio) ==
  IF isAudio THEN << >>
  ELSE IF hasAudio
  THEN <<"--remux-video", "mp4", "--postprocessor-args",
         "ffmpeg:-c:v copy -c:a copy -movflags +faststart">>
  ELSE <<"--merge-output-format", "mp4", "--postprocessor-args",
         "ffmpeg:-c:v copy -c:a copy -movflags +faststart", "--no-part",
         "--concurrent-fragments", "4">>

\* downloadArgs: download-progress.ts lines 83-124, part_001 lines 82-122
DownloadArgs(endpoint, isAudio, hasAudio, cookiesArgs) ==
  <<"--no-warnings">>
    \o (IF endpoint = "progress" THEN <<"--newline", "--progress">> ELSE << >>)
    \o (IF isAudio THEN << >> ELSE <<"--ffmpeg-location", "FFMPEG_PATH">>)
    \o cookiesArgs
    \o <<"-f", "formatToDownload">>
    \o PostProcessing(isAudio, hasAudio)
    \o <<"-o", IF endpoint = "stream" /\ isAudio THEN "-" ELSE "tempFilePath">>
    \o <<"url">>

\* part_001 lines 40, 91, 107; download-progress.ts always writes to
\* tempFilePath (line 78)
NeedsMerging(endpoint, isAudio) == endpoint = "stream" /\ ~isAudio

Malformed_UrlOnly(url, formatId) == url = ""

\* download-progress.ts line 33, part_001 line 31: !url || !formatId
Malformed(url, formatId) == url = "" \/ formatId = << >>

InitNeg ==
  neg = [pc |-> "idle", endpoint |-> "progress", url |-> "", status |-> 0,
         formatId |-> << >>,
         isCombined |-> JsUndefined, requiresCookies |-> JsUndefined,
         useCookies |-> FALSE, cookiesArgs |-> << >>, checkArgs |-> << >>,
         inspection |-> [result |-> "", acodec |-> Absent, vcodec |-> Absent],
         hasAudio |-> FALSE, isAudio |-> FALSE, formatToDownload |-> << >>,
         extension |-> "", downloadArgs |-> << >>, needsMerging |-> FALSE,
         staged |-> FALSE,
         files |-> {}]            \* the cookie files that existed at line 41 (45)

NegStep(new) ==
  /\ neg' = new
  /\ UNCHANGED <<procVars, dpVars, df, sd, ck, vi, reqVars>>

\* the request as it arrives
Requested(endpoint, url, formatId, isCombined, requiresCookies) ==
  [neg EXCEPT !.pc = "l31", !.endpoint = endpoint, !.url = url, !.formatId = formatId,
              !.isCombined = isCombined, !.requiresCookies = requiresCookies]

\* a client asks for a download
NegRequest ==
  /\ neg.pc = "idle"
  /\ \E endpoint \in Endpoints, url \in {"", "URL"},
        formatId \in FormatIds \cup {<< >>}, isCombined \in Flags,
        requiresCookies \in Flags :
       NegStep(Requested(endpoint, url, formatId, isCombined, requiresCookies))

\* the handler up to the spawn of the download: lines 31-125 (27-126), with
\* the cookie files of the project root and the outcome of the inspection
NegPlan(Files) ==
  /\ neg.pc = "l31"
  /\ ~Malformed(neg.url, neg.formatId)
  /\ \E files \in Files, inspection \in Inspections :
       LET useCookies == UseCookies(neg.endpoint, neg.requiresCookies)
           cookiesArgs == IF useCookies THEN getCookiesArgs(TRUE, files) ELSE << >>
           inspected == inspection.result = "json"
           isAudio == IF inspected THEN InspectedIsAudio(inspection)
                      ELSE HeuristicIsAudio(neg.formatId)
           hasAudio == IF inspected THEN InspectedHasAudio(inspection)
                       ELSE HeuristicHasAudio(neg.endpoint, neg.isCombined, isAudio)
       IN NegStep([neg EXCEPT
            !.pc = "spawn",
            !.status = 200,
            !.files = files,
            !.useCookies = useCookies,
            !.cookiesArgs = cookiesArgs,
            !.checkArgs = CheckArgs(cookiesArgs),
            !.inspection = inspection,
            !.hasAudio = hasAudio,
            !.isAudio = isAudio,
            !.formatToDownload = FormatToDownload(hasAudio, neg.formatId),
            !.extension = Extension(isAudio),
            !.downloadArgs = DownloadArgs(neg.endpoint, isAudio, hasAudio, cookiesArgs),
            !.needsMerging = NeedsMerging(neg.endpoint, isAudio),
            !.staged = (neg.endpoint = "progress" \/ ~isAudio)])

\* lines 33-35 (part_001 31-33): the request is answered 400
NegReject ==
  /\ neg.pc = "l31"
  /\ Malformed(neg.url, neg.formatId)
  /\ NegStep([neg EXCEPT !.pc = "rejected", !.status = 400])

(***************************************************************************)
(* video-info.ts lines 80-287: the two calls of executeWithCookieRetry and *)
(* the requiresCookies of the response.                                    *)
(***************************************************************************)
MetadataArgs == <<"--dump-json", "--no-warnings", "URL">>
FormatsArgs == <<"-F", "--no-warnings", "URL">>

InitVi ==
  vi = [pc |-> "idle", metadataUsedCookies |-> FALSE, formatsUsedCookies |-> FALSE,
        formatsRun |-> << >>, requiresCookies |-> FALSE, status |-> 0]

ViStep(newVi, newCk) ==
  /\ vi' = newVi
  /\ ck' = newCk
  /\ UNCHANGED <<procVars, dpVars, df, sd, neg, reqVars>>

\* executeWithCookieRetry is entered with these arguments
Called(args, files, fsChanges) ==
  [NoCall EXCEPT !.pc = "l109", !.args = args, !.files = files,
                 !.fsChanges = fsChanges]

\* lines 84-100
ViRequest ==
  /\ vi.pc = "idle"
  /\ ck.pc = "idle"
  /\ \E files \in SUBSET CookieNames :
       ViStep([vi EXCEPT !.pc = "metadata"], Called(MetadataArgs, files, 0))

\* lines 102-109: the metadata call returned; JSON.parse may throw
ViMetadataReturns ==
  /\ vi.pc = "metadata"
  /\ ck.pc = "returned"
  /\ \/ ViStep([vi EXCEPT !.pc = "formats", !.metadataUsedCookies = ck.usedCookies],
               Called(FormatsArgs, ck.files, ck.fsChanges))
     \/ ViStep([vi EXCEPT !.pc = "responded", !.status = 500], ck)

\* lines 112-282: the formats call returned
ViFormatsReturns ==
  /\ vi.pc = "formats"
  /\ ck.pc = "returned"
  /\ ViStep([vi EXCEPT !.pc = "responded", !.status = 200,
                       !.formatsUsedCookies = ck.usedCookies,
                       !.formatsRun = ck.runs[Len(ck.runs)],
                       !.requiresCookies = (vi.metadataUsedCookies \/ ck.usedCookies)],
            ck)

\* lines 283-286: either call threw
ViCallThrows ==
  /\ vi.pc \in {"metadata", "formats"}
  /\ ck.pc = "thrown"
  /\ ViStep([vi EXCEPT !.pc = "responded", !.status = 500], ck)

\* the client asks for one of the offered formats and hands the
\* requiresCookies of the response back to the download endpoint
ViClientDownloads ==
  /\ vi.pc = "responded"
  /\ vi.status = 200
  /\ neg.pc = "idle"
  /\ \E endpoint \in Endpoints, formatId \in FormatIds, isCombined \in Flags :
       NegStep(Requested(endpoint, "URL", formatId, isCombined,
                         IF endpoint = "progress"
                         THEN JsString(JsBoolean(vi.requiresCookies).v)
                         ELSE JsBoolean(vi.requiresCookies)))

(***************************************************************************)
(* The download-file endpoint up to the creation of the read stream        *)
(* (video-info.ts lines 297-340), and the removal of the served file.  A   *)
(* path is the sequence of the pieces it is written with; "/" is a piece   *)
(* of its own, so that a prefix of the string is a prefix of the sequence. *)
(***************************************************************************)
Cwd == <<"/", "app">>

\* line 295: path.join(process.cwd(), 'downloads')
DOWNLOADS_DIR == Cwd \o <<"/", "downloads">>

FilePaths ==
  { << >>,                                                         \* no filePath
    <<"/", "app", "/", "downloads", "/", "f.mp4">>,
    <<"/", "app", "/", "downloads", "/", "sub", "/", "..", "/", "f.mp4">>,
    <<"/", "app", "/", "/", "downloads", "/", ".", "/", "f.mp4">>,
    <<"/", "app", "/", "downloads", "/", "..", "/", "etc", "/", "passwd">>,
    <<"/", "app", "/", "downloads", "/", "..", "/", "downloads", "/", "f.mp4">>,
    <<"/", "etc", "/", "passwd">>,
    <<"/", "app", "/", "downloads">>,
    <<"/", "app", "/", "downloads", "-old", "/", "f.mp4">>,
    <<"/", "app", "/", "downloads", "-old", "/", "..", "/", "downloads", "/", "f.mp4">>,
    <<"downloads", "/", "f.mp4">> }

\* String.prototype.startsWith
StartsWith(str, prefix) ==
  Len(prefix) <= Len(str) /\ SubSeq(str, 1, Len(prefix)) = prefix

\* the segments of a path: what stands between its separators
RECURSIVE SplitPath(_, _, _)
SplitPath(path, i, segment) ==
  IF i > Len(path) THEN <<segment>>
  ELSE IF path[i] = "/" THEN <<segment>> \o SplitPath(path, i + 1, << >>)
  ELSE SplitPath(path, i + 1, Append(segment, path[i]))

\* path.normalize on the segments: "" and "." are dropped, ".." takes the
\* segment before it away (at the root of an absolute path it is dropped)
RECURSIVE NormalizeSegments(_, _, _, _)
NormalizeSegments(segments, i, kept, absolute) ==
  IF i > Len(segments) THEN kept
  ELSE LET segment == segments[i] IN
       IF segment = << >> \/ segment = <<".">>
       THEN NormalizeSegments(segments, i + 1, kept, absolute)
       ELSE IF segment = <<"..">>
       THEN IF Len(kept) > 0 /\ kept[Len(kept)] # <<"..">>
            THEN NormalizeSegments(segments, i + 1, SubSeq(kept, 1, Len(kept) - 1),
                                   absolute)
            ELSE IF absolute
            THEN NormalizeSegments(segments, i + 1, kept, absolute)
            ELSE NormalizeSegments(segments, i + 1, Append(kept, segment), absolute)
       ELSE NormalizeSegments(segments, i + 1, Append(kept, segment), absolute)

RECURSIVE JoinPath(_, _)
JoinPath(segments, i) ==
  IF i > Len(segments) THEN << >>
  ELSE segments[i] \o (IF i < Len(segments) THEN <<"/">> ELSE << >>)
         \o JoinPath(segments, i + 1)

\* path.normalize (line 314)
Normalize(path) ==
  LET absolute == Len(path) > 0 /\ path[1] = "/"
      trailing == Len(path) > 0 /\ path[Len(path)] = "/"
      body == JoinPath(NormalizeSegments(SplitPath(path, 1, << >>), 1, << >>, absolute), 1)
  IN IF body = << >>
     THEN IF absolute THEN <<"/">> ELSE <<".">>
     ELSE (IF absolute THEN <<"/">> ELSE << >>) \o body
            \o (IF trailing THEN <<"/">> ELSE << >>)

\* line 315: normalizedPath.startsWith(DOWNLOADS_DIR)
InDownloadsDir(normalizedPath) == StartsWith(normalizedPath, DOWNLOADS_DIR)

InitDfq ==
  dfq = [pc |-> "idle", method |-> "GET", filePath |-> << >>, exists |-> FALSE,
         status |-> 0, read |-> << >>, unlinked |-> << >>]

DfqStep(new) ==
  /\ dfq' = new
  /\ UNCHANGED <<procVars, dpVars, df, sd, ck, vi, neg, stg, two, ds, mrg>>

\* a client asks for a file; the file is there or not
DfqRequest ==
  /\ dfq.pc = "idle"
  /\ \E method \in {"GET", "POST"}, filePath \in FilePaths, exists \in BOOLEAN :
       DfqStep([dfq EXCEPT !.pc = "l301", !.method = method, !.filePath = filePath,
                           !.exists = exists])

\* lines 301-340
DfqHandle ==
  /\ dfq.pc = "l301"
  /\ DfqStep(IF dfq.method # "GET"
             THEN [dfq EXCEPT !.pc = "done", !.status = 405]
             ELSE IF dfq.filePath = << >>
             THEN [dfq EXCEPT !.pc = "done", !.status = 400]
             ELSE IF ~InDownloadsDir(Normalize(dfq.filePath))
             THEN [dfq EXCEPT !.pc = "done", !.status = 403]
             ELSE IF ~dfq.exists
             THEN [dfq EXCEPT !.pc = "done", !.status = 404]
             ELSE [dfq EXCEPT !.pc = "streaming", !.status = 200,
                              !.read = dfq.filePath])

\* cleanup (lines 345-363) removes the file that was served
DfqCleanup ==
  /\ dfq.pc = "streaming"
  /\ DfqStep([dfq EXCEPT !.pc = "done", !.unlinked = dfq.filePath,
                         !.exists = FALSE])

(***************************************************************************)
(* The staging path of a download request: download-progress.ts lines      *)
(* 77-78, part_001 lines 93 and 109.  Two requests, a and b, with the      *)
(* values of Date.now() and Math.random() they drew.                       *)
(***************************************************************************)
Requests == {"a", "b"}

Clock == {"1700000000000", "1700000000001"}
Randoms == {"k3x9f", "p0q2z"}
Titles == {"video", "My_clip"}

\* line 77: `${Date.now()}_${Math.random().toString(36).substring(7)}`
DownloadId(now, random) == <<now, "_", random>>

\* download-progress.ts line 78; part_001 lines 93 and 109
TempFilePath(endpoint, now, random, sanitizedTitle, extension) ==
  DOWNLOADS_DIR \o <<"/">>
    \o (IF endpoint = "progress"
        THEN DownloadId(now, random) \o <<"_", sanitizedTitle, ".", extension>>
        ELSE <<now, "_", sanitizedTitle, ".", "mp4">>)

NoRequest ==
  [pc |-> "idle", endpoint |-> "progress", now |-> "", random |-> "",
   title |-> "", tempFilePath |-> << >>]

InitStg == stg = [r \in Requests |-> NoRequest]

StgStep(new) ==
  /\ stg' = new
  /\ UNCHANGED <<procVars, dpVars, df, sd, ck, vi, neg, dfq, two, ds, mrg>>

\* a request reaches the line that names its staging file
StgStart ==
  \E r \in Requests, endpoint \in Endpoints, now \in Clock, random \in Randoms,
     title \in Titles, extension \in {"mp4", "webm"} :
    /\ stg[r].pc = "idle"
    /\ endpoint = "stream" => extension = "mp4"
    /\ StgStep([stg EXCEPT ![r] =
         [pc |-> "inflight", endpoint |-> endpoint, now |-> now,
          random |-> IF endpoint = "progress" THEN random ELSE "",
          title |-> title,
          tempFilePath |-> TempFilePath(endpoint, now, random, title, extension)]])

\* the request is over
StgFinish ==
  \E r \in Requests :
    /\ stg[r].pc = "inflight"
    /\ StgStep([stg EXCEPT ![r].pc = "done"])

(***************************************************************************)
(* The subprocess of a merge plan (-f formatId+bestaudio                   *)
(* --merge-output-format mp4, lines 108-125).  Before it merges, the tool  *)
(* writes the line "[Merger] Merging formats into ..."; the pipe hands it  *)
(* to a data listener whole or cut in two.                                 *)
(*   rest    the part of the line not yet handed to a listener             *)
(*   parts   the number of chunks the line has arrived in so far           *)
(***************************************************************************)
MergerLine ==
  <<"[", "M", "e", "r", "g", "e", "r", "]", " ", "M", "e", "r", "g", "i", "n", "g",
    " ", "f", "o", "r", "m", "a", "t", "s", " ", "i", "n", "t", "o">>

MergerTag == <<"[", "M", "e", "r", "g", "e", "r", "]">>

MergingFormats ==
  <<"M", "e", "r", "g", "i", "n", "g", " ", "f", "o", "r", "m", "a", "t", "s">>

HasMergeMarker_TagOnly(text) == StrIncludes(text, MergerTag)

\* lines 231 and 260
HasMergeMarker(text) ==
  StrIncludes(text, MergerTag) \/ StrIncludes(text, MergingFormats)

InitMrg == mrg = [rest |-> MergerLine, parts |-> 0]

\* the next part of the merger line reaches the stdout or the stderr listener
MergeWrite ==
  /\ procState = "running"
  /\ mrg.rest # << >>
  /\ \E k \in 1..Len(mrg.rest) :
       /\ mrg.parts >= 1 => k = Len(mrg.rest)
       /\ LET output == Chunk(NoNum, NoNum, "", HasMergeMarker(SubSeq(mrg.rest, 1, k)),
                              FALSE)
          IN OnStdout(output) \/ OnStderr(output)
       /\ mrg' = [rest |-> SubSeq(mrg.rest, k + 1, Len(mrg.rest)),
                  parts |-> mrg.parts + 1]
  /\ UNCHANGED <<df, sd, ck, vi, neg, dfq, stg, two, ds>>

\* the subprocess of a merge plan terminates; with code 0 only after it has
\* merged, and so after it has written the merger line
MergeProcExit ==
  /\ ProcExit
  /\ exitCode' = 0 => mrg.rest = << >>

(***************************************************************************)
(* Two download-progress requests in flight together.  Each invocation of  *)
(* the handler declares the progress variables of lines 147-153 and the    *)
(* listeners that close over them.                                         *)
(*   locals   the variables of lines 147-153 and the events written to     *)
(*            res, per scope                                               *)
(*   outputs  the chunks the subprocess of each request has produced, with *)
(*            the stream they arrived on                                   *)
(***************************************************************************)
TwoInputs ==
  { [stream |-> "stdout", output |-> Line(100, 10, "MiB")],
    [stream |-> "stdout", output |-> Line(200, 50, "MiB")],
    [stream |-> "stdout", output |-> Chunk(NoNum, NoNum, "", TRUE, FALSE)],
    [stream |-> "stderr", output |-> Line(200, 50, "MiB")],
    [stream |-> "stderr", output |-> Chunk(NoNum, NoNum, "", TRUE, FALSE)],
    [stream |-> "stderr", output |-> Chunk(NoNum, NoNum, "", FALSE, TRUE)] }

\* lines 143-153
Locals0 ==
  [firstFileSize |-> 0, secondFileSize |-> 0, currentFileProgress |-> 0,
   firstFileComplete |-> FALSE, lastSentProgress |-> Frac(0, 1), accumulatedMB |-> 0,
   isMerging |-> FALSE,
   events |-> << [event |-> "start", progress |-> 0, message |-> "Download started",
                  delivered |-> TRUE, filePath |-> "", filename |-> ""],
                 [event |-> "progress", progress |-> 0, message |-> "",
                  delivered |-> TRUE, filePath |-> "", filename |-> ""] >>]

\* parseProgress (lines 156-222) on the variables st
ParseLocals(st, output) ==
  IF ProgressMatch(output) /\ SizeMatch(output)
  THEN LET progress == output.pct
           size == SizeMB(ToLowerCase(output.unit), output.size)
           isFirst == st.firstFileSize = 0
           isSecond == ~isFirst /\ ~st.firstFileComplete
                         /\ SizeChanged(size, st.firstFileSize)
           first == IF isFirst THEN size ELSE st.firstFileSize
           complete == st.firstFileComplete \/ isSecond
           second == IF isSecond THEN size ELSE st.secondFileSize
           acc == IF isSecond THEN st.firstFileSize ELSE st.accumulatedMB
           combined == CombinedProgress(first, second, complete, acc, progress)
           send == ShouldSend(Floor(combined), st.lastSentProgress)
       IN [st EXCEPT !.firstFileSize = first, !.firstFileComplete = complete,
                     !.secondFileSize = second, !.accumulatedMB = acc,
                     !.currentFileProgress = progress,
                     !.lastSentProgress = IF send THEN combined ELSE @,
                     !.events = IF send THEN SendEvent(@, "progress", Floor(combined), "")
                                ELSE @]
  ELSE st

\* the data listeners (lines 226-247 and 249-276) on the variables st
DataListener(st, stream, output) ==
  LET s1 == IF stream = "stderr" /\ ErrorDetected(output)
            THEN [st EXCEPT !.events = SendEvent(@, "error", 0, MsgProcessing)]
            ELSE st
      s2 == IF output.merger /\ ~s1.isMerging
            THEN [s1 EXCEPT !.isMerging = TRUE,
                            !.events = SendEvent(@, "merging", 0, MsgMerging)]
            ELSE s1
  IN ParseLocals(s2, output)

Scope_Module(r) == "a"

\* lines 147-153 are let declarations in the body of the handler: every
\* invocation has its own
Scope(r) == r

InitTwo ==
  two = [locals |-> [r \in Requests |-> Locals0],
         outputs |-> [r \in Requests |-> << >>]]

\* a chunk of the subprocess of request r reaches the listener registered
\* by the invocation for r
TwoData ==
  \E r \in Requests, in \in TwoInputs :
    /\ Len(two.outputs[r]) < MaxChunks - 1
    /\ two' = [locals |-> [two.locals EXCEPT
                             ![Scope(r)] = DataListener(@, in.stream, in.output)],
               outputs |-> [two.outputs EXCEPT ![r] = Append(@, in)]]
    /\ UNCHANGED <<procVars, dpVars, df, sd, ck, vi, neg, dfq, stg, ds, mrg>>

(***************************************************************************)
(* The stream-download endpoint, direct streaming (part_001 lines          *)
(* 215-255), for one request.                                              *)
(*   proc        "running" | "spawnfail" | "exited" | "closed"             *)
(*   code        the exit code; SigCode when killed, SpawnCode after a     *)
(*               failed spawn                                              *)
(*   produced    the chunks the subprocess has written to its stdout       *)
(*   delivered   how many of them the 'data' listener has received         *)
(*   written     the chunks passed to res.write, in the order of the body  *)
(*   headersSent res.headersSent                                           *)
(*   status      the status code of the response; 200 unless set           *)
(*   json        res.json was called                                       *)
(*   ended       the response was completed (res.end or res.json)          *)
(***************************************************************************)
StdoutChunks == {"chunk1", "chunk2"}

InitDs ==
  ds = [proc |-> "running", code |-> 0, produced |-> << >>, delivered |-> 0,
        written |-> << >>, headersSent |-> FALSE, status |-> 200, json |-> FALSE,
        ended |-> FALSE, errorHandled |-> FALSE, killSent |-> FALSE,
        clientGone |-> FALSE]

DsStep(new) ==
  /\ ds' = new
  /\ UNCHANGED <<procVars, dpVars, df, sd, ck, vi, neg, dfq, stg, two, mrg>>

ResWrite_Prepend(written, chunk) == <<chunk>> \o written

\* res.write(chunk) (line 224)
ResWrite(written, chunk) == Append(written, chunk)

\* res.end() (lines 233, 238, 248)
ResEnd(s) == [s EXCEPT !.ended = TRUE, !.headersSent = TRUE]

\* res.status(500).json(...) (lines 236, 246)
ResFail(s) ==
  [s EXCEPT !.status = 500, !.json = TRUE, !.headersSent = TRUE, !.ended = TRUE]

\* lines 235-239 and 245-249
FailOrEnd(s) == IF ~s.headersSent THEN ResFail(s) ELSE ResEnd(s)

\* spawn(YT_DLP_PATH, downloadArgs) (line 221) cannot start the program
DsSpawnFails ==
  /\ ds.proc = "running"
  /\ ds.produced = << >> /\ ~ds.clientGone
  /\ DsStep([ds EXCEPT !.proc = "spawnfail"])

\* the subprocess writes a chunk to its standard output
DsProcWrite ==
  /\ ds.proc = "running"
  /\ Len(ds.produced) < MaxChunks
  /\ \E chunk \in StdoutChunks : DsStep([ds EXCEPT !.produced = Append(@, chunk)])

\* proc.stdout.on('data') (lines 223-225)
DsStdoutData ==
  /\ ds.proc \in {"running", "exited"}
  /\ ds.delivered < Len(ds.produced)
  /\ DsStep([ds EXCEPT !.delivered = @ + 1,
                       !.written = ResWrite(@, ds.produced[ds.delivered + 1]),
                       !.headersSent = TRUE])

\* the subprocess terminates: by itself with a code, or by the signal
DsProcExit ==
  /\ ds.proc = "running"
  /\ \E code \in {0, 1, SigCode} :
       /\ code = SigCode => ds.killSent
       /\ DsStep([ds EXCEPT !.proc = "exited", !.code = code])

\* proc.on('close') (lines 231-241); 'close' comes after the output streams
\* have ended, and after 'error' when the spawn failed
DsOnClose ==
  /\ \/ ds.proc = "exited" /\ ds.delivered = Len(ds.produced)
     \/ ds.proc = "spawnfail" /\ ds.errorHandled
  /\ LET code == IF ds.proc = "spawnfail" THEN SpawnCode ELSE ds.code
         s == [ds EXCEPT !.proc = "closed", !.code = code]
     IN DsStep(IF code = 0 THEN ResEnd(s) ELSE FailOrEnd(s))

\* proc.on('error') (lines 243-250)
DsOnError ==
  /\ ds.proc = "spawnfail"
  /\ ~ds.errorHandled
  /\ DsStep(FailOrEnd([ds EXCEPT !.errorHandled = TRUE]))

\* req.on('close') (lines 252-254)
DsReqClose ==
  /\ ~ds.clientGone
  /\ DsStep([ds EXCEPT !.clientGone = TRUE,
                       !.killSent = @ \/ ds.proc = "running"])


(***************************************************************************)
(* The state after lines 143-153 and 278.                                  *)
(***************************************************************************)
InitProgress ==
  /\ firstFileSize = 0
  /\ secondFileSize = 0
  /\ currentFileProgress = 0
  /\ firstFileComplete = FALSE
  /\ lastSentProgress = Frac(0, 1)
  /\ accumulatedMB = 0
  /\ sizeMB = 0
  /\ combinedProgress = Frac(0, 1)
  /\ isMerging = FALSE
  /\ mergeTimers = 0
  /\ heartbeats = 0
  /\ downloadSuccess = FALSE
  /\ closePc = "idle"
  /\ attempts = 0
  /\ errorHandled = FALSE
  /\ resEnded = FALSE
  /\ clientGone = FALSE
  /\ events = << [event |-> "start", progress |-> 0, message |-> "Download started",
                  delivered |-> TRUE, filePath |-> "", filename |-> ""],
                 [event |-> "progress", progress |-> 0, message |-> "",
                  delivered |-> TRUE, filePath |-> "", filename |-> ""] >>

InitProc ==
  /\ procState \in {"running", "spawnfail"}
  /\ exitCode = 0
  /\ killSent = FALSE
  /\ chunks = 0
  /\ lastOutput = NoOutput
  /\ fileExists = FALSE
  /\ fileLate = FALSE
  /\ unlinks = 0

Init ==
  /\ InitProc /\ InitProgress /\ InitDf /\ InitSd /\ InitCk /\ InitVi /\ InitNeg
  /\ InitDfq /\ InitStg /\ InitTwo /\ InitDs /\ InitMrg

\* one download-progress request and its subprocess
Next ==
  \/ StdoutData(LifecycleChunks)
  \/ StderrData(LifecycleChunks)
  \/ MergeHeartbeat
  \/ ProcWrite
  \/ FileAppears
  \/ ProcExit
  \/ OnClose
  \/ PollTick
  \/ OnProcError
  \/ OnReqClose

Spec == Init /\ [][Next]_vars

\* the progress parser on the lines of ProgressChunks
NextProgress ==
  \/ StdoutData(ProgressChunks)
  \/ StderrData(ProgressChunks)

SpecProgress == Init /\ [][NextProgress]_vars

\* the same request, with a subprocess that terminates and an event loop
\* that runs the listeners and timers that are due
NextTerminates ==
  \/ StdoutData(MarkerChunks)
  \/ StderrData(MarkerChunks)
  \/ MergeHeartbeat
  \/ ProcWrite
  \/ FileAppears
  \/ ProcExit
  \/ OnClose
  \/ PollTick
  \/ OnProcError
  \/ OnReqClose

SpecTerminates ==
  /\ Init
  /\ [][NextTerminates]_vars
  /\ WF_vars(ProcExit)
  /\ WF_vars(OnProcError)
  /\ WF_vars(OnClose)
  /\ WF_vars(PollTick)

\* one download-progress request of a merge plan and its subprocess
NextMerge ==
  \/ MergeWrite
  \/ StdoutData({Line(100, 10, "MiB")})
  \/ MergeHeartbeat
  \/ ProcWrite
  \/ FileAppears
  \/ MergeProcExit
  \/ OnClose
  \/ PollTick
  \/ OnProcError
  \/ OnReqClose

SpecMerge == Init /\ [][NextMerge]_vars

\* two download-progress requests and the output of their subprocesses
NextTwo ==
  \/ TwoData

SpecTwo == Init /\ [][NextTwo]_vars

\* one stream-download request that streams directly
NextDirect ==
  \/ DsSpawnFails
  \/ DsProcWrite
  \/ DsStdoutData
  \/ DsProcExit
  \/ DsOnClose
  \/ DsOnError
  \/ DsReqClose

SpecDirect == Init /\ [][NextDirect]_vars

\* one download-file request and one staged stream-download request
NextServe ==
  \/ DfStreamError
  \/ DfStreamEnd
  \/ DfStreamClose
  \/ DfResFinish
  \/ DfResClose
  \/ DfReqClose
  \/ DfTimer
  \/ DfCleanupResume
  \/ DfRetry
  \/ SdProcWrite
  \/ SdProcClose
  \/ SdProcError
  \/ SdReqClose
  \/ SdResFinish
  \/ SdStreamError
  \/ SdCleanupResume

SpecServe == Init /\ [][NextServe]_vars

\* one call of executeWithCookieRetry
NextCookies ==
  \/ CkCall
  \/ CkFsChange
  \/ CkCheck
  \/ CkFirstRun
  \/ CkCookiesRunEnds
  \/ CkFallbackRunEnds
  \/ CkPlainRunEnds
  \/ CkRetry
  \/ CkRetryRunEnds

SpecCookies == Init /\ [][NextCookies]_vars

\* the format negotiation of one download request
NextPlan ==
  \/ NegRequest
  \/ NegReject
  \/ NegPlan(SUBSET CookieNames)

SpecPlan == Init /\ [][NextPlan]_vars

\* two download requests and their staging files
NextStaging ==
  \/ StgStart
  \/ StgFinish

SpecStaging == Init /\ [][NextStaging]_vars

\* one download-file request
NextPath ==
  \/ DfqRequest
  \/ DfqHandle
  \/ DfqCleanup

SpecPath == Init /\ [][NextPath]_vars

\* one video-info request and the download request that follows it
NextInfo ==
  \/ ViRequest
  \/ CkFsChange
  \/ CkCheck
  \/ CkFirstRun
  \/ CkCookiesRunEnds
  \/ CkFallbackRunEnds
  \/ CkPlainRunEnds
  \/ CkRetry
  \/ CkRetryRunEnds
  \/ ViMetadataReturns
  \/ ViFormatsReturns
  \/ ViCallThrows
  \/ ViClientDownloads
  \/ NegPlan({ck.files})

SpecInfo == Init /\ [][NextInfo]_vars

(***************************************************************************)
(* Properties.                                                             *)
(***************************************************************************)
EventIndexes == 1..Len(events)
Completed == \E i \in EventIndexes : events[i].event = "complete"
\* the artifact was handed to the client: `complete` went out on an open connection
HandedOff == \E i \in EventIndexes : events[i].event = "complete" /\ events[i].delivered
\* the 'close' listener of the subprocess has run to its end
CloseHandled == procState = "closed" /\ closePc = "done"

\* C1: a `complete` or `error` event is the last event of its download: no
\* event of any kind follows it.
C1_TerminalIsLast ==
  \A i \in EventIndexes : IsTerminal(events[i]) => i = Len(events)

\* C2: for one served staging file the body of cleanup is entered at most
\* once in either endpoint, every invocation after the first does nothing,
\* and once a trigger has fired the body has been entered exactly once or
\* an invocation of cleanup is still scheduled.
C2_CleanupOnce ==
  /\ df.bodies <= 1
  /\ sd.bodies <= 1
  /\ df.calls >= 1 => df.bodies = 1
  /\ sd.calls >= 1 => sd.bodies = 1
  /\ df.fired => \/ df.bodies = 1
                 \/ df.timers > 0
                 \/ df.streamEnded /\ ~df.fsClose
  /\ sd.fired => sd.bodies = 1

\* several triggers have invoked cleanup in both endpoints
C2_Witness ==
  /\ df.calls >= 2 /\ df.bodies = 1
  /\ sd.calls >= 2 /\ sd.bodies = 1

\* C3: when a download that was not handed to the file-serving endpoint has
\* come to rest (subprocess closed, 'close' listener finished, connection
\* closed), its staging file is gone and was removed at most once.
C3_EveryFileDeletedOnce ==
  (CloseHandled /\ clientGone /\ ~fileLate /\ ~HandedOff)
    => (~fileExists /\ unlinks <= 1)

\* C4: no `complete` event is emitted after the client has disconnected.
C4_NoCompleteAfterDisconnect ==
  \A i \in EventIndexes : events[i].event = "complete" => events[i].delivered

\* C5: after a disconnect that came before the download succeeded, once the
\* subprocess has terminated and its 'close' listener has run, the staging
\* file does not exist.
C5_CancelledFileRemoved ==
  (clientGone /\ ~HandedOff /\ CloseHandled) => ~fileExists

\* C6: a disconnect of the download-progress connection after `complete`
\* leaves the staging file and the subprocess as they are.
C6_HandoffSurvivesDisconnect ==
  [][(Completed /\ ~clientGone /\ clientGone')
       => /\ fileExists' = fileExists
          /\ unlinks' = unlinks
          /\ killSent' = killSent
          /\ procState' = procState]_vars

\* the connection was closed after `complete`, and the file is still there
C6_Witness == clientGone /\ HandedOff /\ fileExists

\* C7: the values of the `progress` events of one download are strictly
\* increasing, and the floor of lastSentProgress is the last value sent.
ProgressIndexes == {i \in EventIndexes : events[i].event = "progress"}

C7_ProgressStrictlyIncreasing ==
  /\ \A i, j \in ProgressIndexes : i < j => events[i].progress < events[j].progress
  /\ \A i \in ProgressIndexes :
       (\A j \in ProgressIndexes : j <= i) => events[i].progress = Floor(lastSentProgress)

\* the second stream was detected, the combined percent fell below the last
\* value sent, and a higher value was sent later
C7_Witness ==
  /\ firstFileComplete
  /\ Cardinality(ProgressIndexes) >= 3
  /\ \E i \in ProgressIndexes : events[i].progress > 55
  /\ Floor(combinedProgress) < Floor(lastSentProgress)

\* C8: with one known stream the combined percent is that stream's percent;
\* with a first stream of size A banked and a second of size B at p percent
\* it is 100 * (A + B * p / 100) / (A + B); A = 10, B = 90, p = 50 give 55.
C8_CombinedPercent ==
  /\ (firstFileSize > 0 /\ ~firstFileComplete)
       => combinedProgress.n * PctUnit = currentFileProgress * combinedProgress.d
  /\ firstFileComplete
       => /\ combinedProgress.d = PctUnit * (firstFileSize + secondFileSize)
          /\ combinedProgress.n = 100 * PctUnit * firstFileSize
                                  + secondFileSize * currentFileProgress
  /\ (/\ firstFileComplete
      /\ firstFileSize = 10 * MBUnit
      /\ secondFileSize = 90 * MBUnit
      /\ currentFileProgress = 50 * PctUnit)
       => Floor(combinedProgress) = 55

C8_Witness ==
  /\ firstFileComplete
  /\ firstFileSize = 10 * MBUnit
  /\ secondFileSize = 90 * MBUnit
  /\ currentFileProgress = 50 * PctUnit
  /\ Floor(combinedProgress) = 55

\* C9: the size of a progress line, by its unit.  What the line says, in
\* 1/MBUnit MB: GiB value * 1024, MiB value, KiB value / 1024 and, for a
\* size in bytes, value / 1024^2.
LastLineHasPercentAndSize == lastOutput.pct # NoNum /\ lastOutput.size # NoNum

LastLineUnit == ToLowerCase(lastOutput.unit)

\* the percent of the last line is the current percent, and its size is
\* sizeMB, for the units the claim names
SizeApplied(units) ==
  (LastLineHasPercentAndSize /\ LastLineUnit \in units) =>
    /\ currentFileProgress = lastOutput.pct
    /\ CASE LastLineUnit = "gib" -> sizeMB = lastOutput.size * 1024 * MBUnit
         [] LastLineUnit = "mib" -> sizeMB = lastOutput.size * MBUnit
         [] LastLineUnit = "kib" -> sizeMB * 1024 = lastOutput.size * MBUnit
         [] LastLineUnit = "b" -> /\ sizeMB <= lastOutput.size
                                  /\ sizeMB * 1024 * 1024 = lastOutput.size * MBUnit

\* C9 as claimed: every line with a percent and a size in B, KiB, MiB or
\* GiB is applied with its size converted to megabytes.
C9_AllUnitsConverted == SizeApplied({"gib", "mib", "kib", "b"})

\* C9 as amended: a line with a percent and a size in KiB, MiB or GiB is
\* applied with its size converted to megabytes (1024-based); a line whose
\* size is in bytes is not recognised and changes nothing.
C9_BinaryUnitsConverted ==
  /\ []SizeApplied({"gib", "mib", "kib"})
  /\ [][(chunks' # chunks /\ lastOutput'.size # NoNum
           /\ ToLowerCase(lastOutput'.unit) = "b")
          => (UNCHANGED parseVars /\ events' = events)]_vars

\* "45.5% of 50.00MiB" was applied as 45.5 against 50 MB after "of 2.00GiB"
\* had been read as 2048 MB
C9_Witness ==
  /\ lastOutput = Line(91, 50, "MiB")
  /\ currentFileProgress = 91
  /\ sizeMB = 50 * MBUnit
  /\ firstFileSize = 2048 * MBUnit

\* C10: with a credential file present, when the run with credentials and
\* the fallback run without them both fail, the error thrown is the error
\* of the first (credentialed) run.
C10_CredentialedErrorSurfaces ==
  (ck.pc = "thrown" /\ ck.cookiesExist) =>
    /\ Len(ck.runs) = 2
    /\ Len(ck.errors) = 2
    /\ ck.thrown = ck.errors[1]
    /\ ck.thrown.run = 1

\* both runs failed, with different messages, and the first one was thrown
C10_Witness ==
  /\ ck.pc = "thrown"
  /\ ck.cookiesExist
  /\ "--cookies" \in {ck.runs[1][i] : i \in 1..Len(ck.runs[1])}
  /\ ck.runs[2] = ck.args
  /\ ck.errors[1].msg = "Command failed: Sign in to confirm your age"
  /\ ck.errors[2].msg = "Command failed: HTTP Error 403"
  /\ ck.thrown = ck.errors[1]

\* the argument list args with "--cookies" and a cookie file inserted
\* immediately before its last element
IsCredentialed(argv, args) ==
  /\ Len(argv) = Len(args) + 2
  /\ \A i \in 1..(Len(args) - 1) : argv[i] = args[i]
  /\ argv[Len(args)] = "--cookies"
  /\ argv[Len(args) + 1] \in CookieNames
  /\ argv[Len(args) + 2] = args[Len(args)]

\* C11: when a cookie file is found at the initial check and when the
\* arguments are built, the first run has the credential arguments
\* immediately before the final argument; a call that returns after that
\* single run returns usedCookies = true; once the first run has failed
\* (whatever the message) there is exactly one more run, with the caller's
\* arguments unchanged, and a return after it has usedCookies = false.
\* There are never more than two runs.
C11_CookiesFirstThenPlain ==
  (ck.cookiesExist /\ ck.cookiesArgs # << >> /\ Len(ck.runs) >= 1) =>
    /\ IsCredentialed(ck.runs[1], ck.args)
    /\ Len(ck.runs) <= 2
    /\ (Len(ck.errors) >= 1) <=> (Len(ck.runs) = 2)
    /\ Len(ck.runs) = 2 => ck.runs[2] = ck.args /\ ck.errors[1].run = 1
    /\ ck.pc = "returned" => (ck.usedCookies <=> Len(ck.runs) = 1)
    /\ ck.pc = "returned" => Len(ck.errors) = Len(ck.runs) - 1
    /\ ck.pc = "thrown" => Len(ck.errors) = 2

\* the credentialed run failed and the plain retry succeeded
C11_Witness ==
  /\ ck.pc = "returned"
  /\ ck.cookiesExist
  /\ ck.args = <<"-j", "URL">>
  /\ ck.runs = << <<"-j", "--cookies", "cookies.txt", "URL">>, <<"-j", "URL">> >>
  /\ ck.errors[1].msg = "Command failed: HTTP Error 403"
  /\ ~ck.usedCookies

\* C12: when no cookie file is found at the initial check, the first run has
\* the caller's arguments unchanged.  A second run is started only after
\* the first failed with one of the authentication phrases in its message
\* and with a cookie file present at the re-check; it is built with the
\* cookie arguments and its outcome is the outcome of the call.  Every other
\* failure is thrown as it is, after exactly one run.
C12_PlainFirstThenAuthRetry ==
  /\ [](( ~ck.cookiesExist /\ Len(ck.runs) >= 1) =>
         /\ ck.runs[1] = ck.args
         /\ Len(ck.runs) <= 2
         /\ ck.pc = "returned" => (ck.usedCookies <=> Len(ck.runs) = 2)
         /\ ck.pc = "returned" => Len(ck.errors) = Len(ck.runs) - 1
         /\ (ck.pc = "thrown" /\ Len(ck.runs) = 1) =>
              ck.errors = <<ck.thrown>> /\ ck.thrown.run = 1
         /\ (ck.pc = "thrown" /\ Len(ck.runs) = 2) =>
              Len(ck.errors) = 2 /\ ck.thrown = ck.errors[2] /\ ck.thrown.run = 2
         /\ Len(ck.runs) = 2 =>
              /\ NeedsAuth(ck.errors[1].msg)
              /\ ck.runs[2] = ck.args \/ IsCredentialed(ck.runs[2], ck.args)
              /\ ck.cookiesArgs # << >> => IsCredentialed(ck.runs[2], ck.args))
  /\ [][ (ck.pc = "plain" /\ ck'.pc \in {"l149", "thrown"}) =>
           ((ck'.pc = "l149") <=>
              (/\ ck'.error.msg \in
                    { "Command failed: Sign in to confirm your age",
                      "Command failed: confirm you are not a bot",
                      "Command failed: Video not available" }
               /\ getCookiesFilePath(ck.files) # NoPath)) ]_vars

\* a cookie file appeared after the initial check; the plain run was
\* refused for authentication and the retry with cookies succeeded
C12_Witness ==
  /\ ck.pc = "returned"
  /\ ~ck.cookiesExist
  /\ ck.runs = << <<"URL">>, <<"--cookies", "youtube-cookies.txt", "URL">> >>
  /\ ck.errors[1].msg = "Command failed: confirm you are not a bot"
  /\ ck.usedCookies

\* the argument list carries the cookie option
HasCookies(argv) == \E i \in 1..Len(argv) : argv[i] = "--cookies"

Planned == neg.pc = "spawn"

\* the plan came from the inspection / from the fallback of the catch block
Inspected == neg.inspection.result = "json"
FellBack == neg.inspection.result \in {"throws", "garbage"}

\* the caller said the format is a combined one
CombinedHint ==
  IF neg.endpoint = "progress"
  THEN neg.isCombined = JsString("true")
  ELSE neg.isCombined \in {JsString("true"), JsBoolean(TRUE)}

\* C14: whatever the inspection comes to, the handler goes on to the spawn
\* of the download; after a failed inspection (the tool failed or its
\* output was no JSON) isAudio is "the format id contains 251 or 140", and
\* hasAudio is isAudio or the caller's combined hint.
C14_InspectionFailureYieldsPlan ==
  /\ []((Planned /\ FellBack) =>
         /\ neg.isAudio <=>
              neg.formatId \in { <<"1", "4", "0">>, <<"2", "5", "1">>,
                                 <<"1", "4", "0", "0">> }
         /\ neg.isAudio => neg.hasAudio
         /\ ~neg.isAudio => (neg.hasAudio <=> CombinedHint)
         /\ neg.downloadArgs # << >>)
  /\ [][(neg.pc = "l31" /\ neg.url # "" /\ neg.formatId # << >>)
          => neg'.pc = "spawn"]_vars

\* the inspection produced no JSON and the id only contains 140
C14_Witness ==
  /\ Planned
  /\ neg.inspection.result = "garbage"
  /\ neg.formatId = <<"1", "4", "0", "0">>
  /\ neg.isCombined = JsUndefined
  /\ neg.isAudio
  /\ neg.hasAudio

\* C15: the format expression of the download is the format id when
\* hasAudio holds, and the format id followed by "+bestaudio" when not,
\* after an inspection and after the fallback alike.
C15_FormatExpression ==
  Planned =>
    /\ neg.hasAudio => neg.formatToDownload = neg.formatId
    /\ ~neg.hasAudio =>
         /\ Len(neg.formatToDownload) = Len(neg.formatId) + 1
         /\ SubSeq(neg.formatToDownload, 1, Len(neg.formatId)) = neg.formatId
         /\ neg.formatToDownload[Len(neg.formatId) + 1] = "+bestaudio"
    /\ \E i \in 1..(Len(neg.downloadArgs) - 1) :
         neg.downloadArgs[i] = "-f" /\ neg.downloadArgs[i + 1] = "formatToDownload"

\* fallback mode, no audio: 137+bestaudio
C15_Witness ==
  /\ Planned
  /\ FellBack
  /\ ~neg.hasAudio
  /\ neg.formatToDownload = <<"1", "3", "7", "+bestaudio">>

\* C16 as stated: after a successful inspection isAudio and hasAudio are
\* not both false.
C16_NotBothFalse == (Planned /\ Inspected) => (neg.isAudio \/ neg.hasAudio)

\* C16, amended: after a successful inspection hasAudio says that the
\* format has an audio codec other than "none", isAudio says that it has no
\* video codec; both are false exactly for a video-only format, whose
\* format expression then ends with "+bestaudio".
C16_InspectedPlan ==
  (Planned /\ Inspected) =>
    /\ neg.hasAudio <=> neg.inspection.acodec = "mp4a.40.2"
    /\ neg.isAudio <=> neg.inspection.vcodec \in {Absent, "none"}
    /\ (~neg.isAudio /\ ~neg.hasAudio) <=>
         (/\ neg.inspection.vcodec = "avc1.64001F"
          /\ neg.inspection.acodec \in {Absent, "none"})
    /\ (~neg.isAudio /\ ~neg.hasAudio) =>
         neg.formatToDownload[Len(neg.formatToDownload)] = "+bestaudio"

\* a video-only format was inspected
C16_Witness ==
  /\ Planned
  /\ Inspected
  /\ neg.inspection.vcodec = "avc1.64001F"
  /\ neg.inspection.acodec = "none"
  /\ ~neg.isAudio
  /\ ~neg.hasAudio

HasFlag(argv, flag) == \E i \in 1..Len(argv) : argv[i] = flag

PostProcessed ==
  HasFlag(neg.downloadArgs, "--remux-video")
    \/ HasFlag(neg.downloadArgs, "--merge-output-format")
    \/ HasFlag(neg.downloadArgs, "--postprocessor-args")

CloseVerdicts ==
  { i \in EventIndexes :
      \/ events[i].event = "complete"
      \/ events[i].event = "error" /\ events[i].message = MsgNotFound }

\* C18: the wait for the staging file after exit code 0 ends within 50
\* polls; the 'close' listener then writes exactly one event: `complete`
\* with the staging path and the file name when the file is there, the
\* "file not found" `error` when it is not, after 50 polls.  `complete` is
\* written only after exit code 0 and only with the file on disk.
C18_BoundedPollThenVerdict ==
  /\ [](/\ attempts <= 50
        /\ Cardinality(CloseVerdicts) <= 1
        /\ CloseVerdicts # {} <=> (CloseHandled /\ exitCode = 0)
        /\ closePc = "polling" => (procState = "closed" /\ exitCode = 0)
        /\ \A i \in EventIndexes :
             events[i].event = "complete" =>
               /\ events[i].filePath = "tempFilePath"
               /\ events[i].filename = "sanitizedTitle.extension")
  /\ [][Len(events') > Len(events) /\ Len(events') \in CloseVerdicts'
          => /\ exitCode' = 0
             /\ events'[Len(events')].event = "complete" <=> fileExists
             /\ events'[Len(events')].event = "error" =>
                  (~fileExists /\ attempts' = 50)]_vars

\* the file showed up during the wait and `complete` went out
C18_Witness ==
  /\ CloseHandled
  /\ exitCode = 0
  /\ attempts > 0
  /\ attempts < 50
  /\ Completed
  /\ fileExists

\* C19: after a non-zero exit the `error` of the 'close' listener carries
\* the "failed during merge" message exactly when a merge marker had been
\* seen (isMerging), and the message with the exit code otherwise.
C19_MergeMessageIffMerging ==
  (CloseHandled /\ exitCode # 0) =>
    /\ events[Len(events)].event = "error"
    /\ events[Len(events)].message = MsgMerge <=> isMerging
    /\ events[Len(events)].message = MsgCode <=> ~isMerging

\* C20: with the client still connected, once the subprocess has closed and
\* its 'close' listener has finished, a download that wrote an `error`
\* event has no staging file on disk.
C20_FailedDownloadLeavesNoFile ==
  (CloseHandled /\ ~clientGone /\ \E i \in EventIndexes : events[i].event = "error")
    => ~fileExists

LastEvent == events[Len(events)]

Resolved(path) ==
  IF Len(path) > 0 /\ path[1] = "/" THEN Normalize(path)
  ELSE Normalize(Cwd \o <<"/">> \o path)

\* the path names the staging directory or something below it
WithinStaging(path) ==
  \/ Resolved(path) = DOWNLOADS_DIR
  \/ /\ Len(Resolved(path)) > Len(DOWNLOADS_DIR) + 1
     /\ SubSeq(Resolved(path), 1, Len(DOWNLOADS_DIR) + 1) = DOWNLOADS_DIR \o <<"/">>

\* C22: the download-file endpoint reads and removes a file only when the
\* requested path names something below the staging directory; a request
\* for any other path is answered 403 and nothing is read or removed.
C22_OnlyStagingFilesServed ==
  /\ dfq.read # << >> => WithinStaging(dfq.read)
  /\ dfq.unlinked # << >> => WithinStaging(dfq.unlinked)
  /\ (dfq.pc \in {"streaming", "done"} /\ dfq.method = "GET" /\ dfq.filePath # << >>
        /\ ~WithinStaging(dfq.filePath)) =>
       (dfq.status = 403 /\ dfq.read = << >> /\ dfq.unlinked = << >>)

\* C23: a download request without the URL or without the format id is
\* answered 400 by the first step of the handler, in both endpoints:
\* no inspection has run, no download arguments and no staging path exist.
C23_MalformedRejectedFirst ==
  /\ []((neg.pc \in {"rejected", "spawn"} /\ (neg.url = "" \/ neg.formatId = << >>)) =>
         /\ neg.pc = "rejected"
         /\ neg.status = 400
         /\ neg.inspection.result = ""
         /\ neg.checkArgs = << >>
         /\ neg.downloadArgs = << >>
         /\ ~neg.staged)
  /\ []((neg.pc = "rejected") => (neg.url = "" \/ neg.formatId = << >>))
  /\ [][(neg.pc = "l31" /\ (neg.url = "" \/ neg.formatId = << >>))
          => neg'.pc = "rejected"]_vars

\* a stream-download request without a format id
C23_Witness ==
  /\ neg.pc = "rejected"
  /\ neg.endpoint = "stream"
  /\ neg.url = "URL"
  /\ neg.formatId = << >>
  /\ neg.status = 400

\* C24: two requests that are in flight together have different staging
\* paths (two download-progress requests that drew different random
\* suffixes), whatever their titles and start times.
C24_UniqueStagingPaths ==
  (/\ stg["a"].pc = "inflight"
   /\ stg["b"].pc = "inflight"
   /\ (stg["a"].endpoint = "progress" /\ stg["b"].endpoint = "progress")
        => stg["a"].random # stg["b"].random)
    => stg["a"].tempFilePath # stg["b"].tempFilePath

MergingEvents(evs, message) ==
  Cardinality({i \in 1..Len(evs) : evs[i].event = "merging" /\ evs[i].message = message})

\* C26: the merge phase is entered at most once.  The first chunk with a
\* merge marker, on stdout or stderr, writes the one initial `merging` event
\* and starts the one heartbeat timer; a later marker on either stream
\* writes no second initial event and starts no further timer; and once the
\* subprocess has closed no `merging` event is written any more.
C26_MergePhaseOnce ==
  /\ [](/\ MergingEvents(events, MsgMerging) = (IF isMerging THEN 1 ELSE 0)
        /\ mergeTimers = (IF isMerging /\ procState # "closed" THEN 1 ELSE 0))
  /\ [][/\ (lastOutput'.merger /\ chunks' # chunks /\ ~isMerging)
            => /\ isMerging' /\ mergeTimers' = 1
               /\ MergingEvents(events', MsgMerging) = 1
        /\ procState = "closed"
            => /\ MergingEvents(events', MsgMerging) = MergingEvents(events, MsgMerging)
               /\ MergingEvents(events', MsgStillMerging)
                    = MergingEvents(events, MsgStillMerging)]_vars

\* a marker arrived in the last chunk, the heartbeat fired and the
\* subprocess has closed
C26_Witness ==
  /\ isMerging
  /\ lastOutput.merger
  /\ chunks = MaxChunks
  /\ MergingEvents(events, MsgMerging) = 1
  /\ MergingEvents(events, MsgStillMerging) >= 1
  /\ procState = "closed"
  /\ mergeTimers = 0

\* the step wrote the early `error` event of line 256
ProcessingErrorWritten ==
  /\ Len(events') > Len(events)
  /\ events'[Len(events) + 1] = Ev("error", 0, MsgProcessing)

\* C27 as stated: whenever a chunk with an error marker reaches a data
\* listener, on stdout or on stderr, an `error` event is written in that step
C27_ErrorMarkerOnEitherStream ==
  [][(chunks' # chunks /\ lastOutput'.err) => ProcessingErrorWritten]_vars

\* C27: a chunk with an error marker that arrives on stderr writes an
\* `error` event in that step, before the 'close' of the subprocess is
\* handled; the same chunk on stdout writes no `error` event
C27_ErrorMarkerOnStderr ==
  [][/\ (\E output \in LifecycleChunks : output.err /\ OnStderr(output))
        => (ProcessingErrorWritten /\ procState' # "closed" /\ closePc' = "idle")
     /\ (\E output \in LifecycleChunks : output.err /\ OnStdout(output))
        => ~ProcessingErrorWritten]_vars

\* the early `error` event was written while the subprocess is running
C27_Witness ==
  /\ procState = "running"
  /\ lastOutput.err
  /\ events[Len(events)] = Ev("error", 0, MsgProcessing)

\* the path the resolver is to return on these files
FirstCandidate(files) ==
  CASE "youtube-cookies.txt" \in files -> <<"--cookies", "youtube-cookies.txt">>
    [] "youtube-cookies.txt" \notin files /\ "cookies.txt" \in files
         -> <<"--cookies", "cookies.txt">>
    [] OTHER -> << >>

\* C28: every call of the credential resolver returns the first existing
\* candidate in the order youtube-cookies.txt, cookies.txt and returns null
\* when neither exists; the call throws nothing and leaves the files and
\* the state of its caller as they are.
C28_FirstExistingCandidate ==
  [][/\ (ck.pc = "l109" /\ ck'.pc # "l109")
        => /\ ck'.pc = "l112"
           /\ ck'.cookiesExist <=> (FirstCandidate(ck.files) # << >>)
           /\ ck' = [ck EXCEPT !.pc = "l112", !.cookiesExist = ck'.cookiesExist]
     /\ (ck.pc = "l112" /\ ck.cookiesExist /\ ck'.pc # "l112")
        => /\ ck'.pc = "cookies"
           /\ ck'.cookiesArgs = FirstCandidate(ck.files)
           /\ ck'.files = ck.files /\ ck'.thrown = ck.thrown
     /\ (ck.pc = "l149" /\ ck'.pc # "l149")
        => /\ ck'.pc = "retry"
           /\ ck'.cookiesArgs = FirstCandidate(ck.files)
           /\ ck'.files = ck.files /\ ck'.thrown = ck.thrown]_vars

\* both files exist and the run got the path of youtube-cookies.txt
C28_Witness ==
  /\ ck.pc = "cookies"
  /\ ck.files = {"youtube-cookies.txt", "cookies.txt"}
  /\ ck.fsChanges = 0
  /\ ck.cookiesArgs = <<"--cookies", "youtube-cookies.txt">>

RECURSIVE Replay(_)
\* the variables and events of a request that has received outs and
\* nothing else
Replay(outs) ==
  IF outs = << >> THEN Locals0
  ELSE DataListener(Replay(SubSeq(outs, 1, Len(outs) - 1)),
                    outs[Len(outs)].stream, outs[Len(outs)].output)

C30_InOrderThenCompleted ==
  /\ ds.written = SubSeq(ds.produced, 1, ds.delivered)
  /\ ds.proc = "closed" => (ds.ended /\ ds.written = ds.produced)
  /\ ds.ended => (ds.proc = "closed" \/ (ds.proc = "spawnfail" /\ ds.errorHandled))

\* the subprocess wrote different chunks, all were written to the response
\* and it closed with code 0
C30_Witness ==
  /\ ds.proc = "closed" /\ ds.code = 0
  /\ ds.ended /\ ds.status = 200 /\ ~ds.json
  /\ Len(ds.written) = MaxChunks
  /\ ds.written[1] # ds.written[2]

ProgressEvents(evs) == {i \in 1..Len(evs) : evs[i].event = "progress"}

\* C31: a chunk that lacks the percent figure or the size figure leaves the
\* first and second stream size, the first-stream-complete flag, the current
\* percent, the accumulated MB and the last emitted percent as they are, and
\* writes no `progress` event.
C31_LineWithoutProgressIgnored ==
  [][(chunks' # chunks /\ (lastOutput'.pct = NoNum \/ lastOutput'.size = NoNum))
       => /\ UNCHANGED <<firstFileSize, secondFileSize, firstFileComplete,
                         currentFileProgress, accumulatedMB, lastSentProgress>>
          /\ ProgressEvents(events') = ProgressEvents(events)]_vars

\* a line with a percent and no size arrived after progress had been tracked
C31_Witness ==
  /\ chunks >= 2
  /\ lastOutput.pct = 200 /\ lastOutput.size = NoNum
  /\ firstFileSize > 0
  /\ currentFileProgress = 91
  /\ Floor(lastSentProgress) = 45

\* the step is the detection of the second stream
SecondStreamDetected == ~firstFileComplete /\ firstFileComplete'

\* C32: the second stream is detected only on a parsed size more than
\* 0.1 MB away from the recorded first-stream size, and at most once: the
\* detection sets firstFileComplete, records the size as that of the second
\* stream and banks the first-stream size as accumulated MB; after it the
\* two sizes and the accumulated MB keep their values whatever the later
\* lines report.
C32_SecondStreamDetectedOnce ==
  [][/\ SecondStreamDetected
        => /\ firstFileSize # 0
           /\ Abs(sizeMB' - firstFileSize) * 10 > MBUnit
           /\ firstFileSize' = firstFileSize
           /\ secondFileSize' = sizeMB'
           /\ accumulatedMB' = firstFileSize
     /\ (secondFileSize' # secondFileSize \/ accumulatedMB' # accumulatedMB)
        => SecondStreamDetected
     /\ firstFileComplete
        => /\ firstFileComplete'
           /\ UNCHANGED <<firstFileSize, secondFileSize, accumulatedMB>>]_vars

\* after the detection a line reported a size that is neither of the two
\* recorded ones
C32_Witness ==
  /\ firstFileComplete
  /\ firstFileSize = 10 * MBUnit /\ accumulatedMB = 10 * MBUnit
  /\ secondFileSize = 90 * MBUnit
  /\ sizeMB = 50 * MBUnit

\* a termination trigger of the file-serving endpoint has fired: response
\* finish, response close, request close, file-stream close after end, or
\* file-stream error
DfTriggered ==
  \/ df.resFinish \/ df.resClose \/ df.reqClose
  \/ df.fsClose /\ df.streamEnded
  \/ df.fsError

\* C33: in the file-serving endpoint cleanup destroys the read stream and
\* removes the staging file only after a termination trigger has fired.
C33_NoCleanupBeforeTrigger ==
  /\ []((df.bodies > 0 \/ df.unlinks > 0 \/ df.attempts > 0 \/ ~df.file) => DfTriggered)
  /\ [][(df'.unlinks # df.unlinks \/ df'.file # df.file) => DfTriggered]_vars

\* the file was streamed to its end, the response finished, and the timer
\* of the trigger ran cleanup, which removed the file
C33_Witness ==
  /\ df.streamEnded /\ df.resFinish
  /\ ~df.fsError
  /\ df.bodies = 1
  /\ ~df.file /\ df.unlinks = 1

\* the step is a removal attempt of cleanup that failed
DfUnlinkFailed == df'.attempts = df.attempts + 1 /\ df'.unlinks = df.unlinks

SdUnlinkFailed ==
  sd.phase = "streaming" /\ sd'.attempts = sd.attempts + 1 /\ sd'.unlinks = sd.unlinks

\* C34: a failed removal of the staging file stays inside cleanup.  In the
\* file-serving endpoint the first failure schedules the one retry and a
\* failure of the retry schedules nothing, so a file sees at most two
\* attempts; in stream-download a failure schedules nothing, so a file sees
\* at most one attempt; in both the cleanup-done flag stays set.
C34_DeletionFailureContained ==
  /\ [](df.attempts <= 2 /\ sd.attempts <= 1)
  /\ [][/\ (DfUnlinkFailed /\ df.pc = "wait") => df'.pc = "retry"
        /\ (DfUnlinkFailed /\ df.pc = "retry") => (df'.pc = "done" /\ df'.attempts = 2)
        /\ SdUnlinkFailed => sd'.pc = "done"
        /\ df.cleanupDone => df'.cleanupDone
        /\ sd.cleanupDone => sd'.cleanupDone]_vars

\* in the file-serving endpoint the removal and its retry failed; in
\* stream-download the removal failed
C34_Witness ==
  /\ df.attempts = 2 /\ df.unlinks = 0 /\ df.file /\ df.pc = "done" /\ df.cleanupDone
  /\ sd.attempts = 1 /\ sd.unlinks = 0 /\ sd.file /\ sd.pc = "done" /\ sd.cleanupDone

\* C35: in the staged path of stream-download, after a disconnect that came
\* while the subprocess was running, the subprocess has been sent the kill
\* signal, the staging file is never streamed to the response and, once the
\* subprocess has terminated, the staging file does not exist.
C35_DisconnectLeavesNoFile ==
  sd.killSent =>
    /\ sd.phase = "failed"
    /\ sd.bodies = 0
    /\ sd.proc = "closed" => ~sd.file

\* the credential arguments in an argument list: "--cookies" and the
\* argument after it
CredentialArgs(args) ==
  IF \E i \in 1..Len(args) : args[i] = "--cookies"
  THEN LET i == CHOOSE i \in 1..Len(args) : args[i] = "--cookies"
       IN SubSeq(args, i, i + 1)
  ELSE << >>

\* the flag of the request says true; a query parameter (download-progress)
\* is never a boolean
FlagIsTrue(v) == v.v = "true"

FlagCanArrive == ~(neg.endpoint = "progress" /\ neg.requiresCookies.t = "boolean")

\* C36: in one download request the inspection call and the download
\* subprocess get the same credential arguments, those computed once at
\* line 41 (45); they are non-empty exactly when requiresCookies is true and
\* a cookie file existed then; and getCookiesArgs without the force flag
\* returns no arguments whatever files exist.
C36_OneCredentialDecision ==
  /\ neg.pc = "spawn"
       => /\ CredentialArgs(neg.checkArgs) = neg.cookiesArgs
          /\ CredentialArgs(neg.downloadArgs) = neg.cookiesArgs
          /\ FlagCanArrive
               => (neg.cookiesArgs # << >>
                     <=> (FlagIsTrue(neg.requiresCookies) /\ neg.files # {}))
  /\ \A files \in SUBSET CookieNames : getCookiesArgs(FALSE, files) = << >>

\* a download-progress request with requiresCookies=true while both cookie
\* files exist
C36_Witness ==
  /\ neg.pc = "spawn"
  /\ neg.endpoint = "progress"
  /\ neg.requiresCookies = JsString("true")
  /\ neg.files = CookieNames
  /\ CredentialArgs(neg.checkArgs) = <<"--cookies", "youtube-cookies.txt">>
  /\ CredentialArgs(neg.downloadArgs) = <<"--cookies", "youtube-cookies.txt">>

\* the argument that follows flag in args; "" when the flag is not there
FlagValue(args, flag) ==
  IF \E i \in 1..(Len(args) - 1) : args[i] = flag
  THEN args[(CHOOSE i \in 1..(Len(args) - 1) : args[i] = flag) + 1]
  ELSE ""

CopyOnly == "ffmpeg:-c:v copy -c:a copy -movflags +faststart"

\* the three shapes of the download arguments
AudioShape ==
  /\ ~HasFlag(neg.downloadArgs, "--remux-video")
  /\ ~HasFlag(neg.downloadArgs, "--merge-output-format")
  /\ ~HasFlag(neg.downloadArgs, "--postprocessor-args")
  /\ ~HasFlag(neg.downloadArgs, "--no-part")
  /\ ~HasFlag(neg.downloadArgs, "--concurrent-fragments")

RemuxShape ==
  /\ FlagValue(neg.downloadArgs, "--remux-video") = "mp4"
  /\ FlagValue(neg.downloadArgs, "--postprocessor-args") = CopyOnly
  /\ ~HasFlag(neg.downloadArgs, "--merge-output-format")
  /\ ~HasFlag(neg.downloadArgs, "--no-part")
  /\ ~HasFlag(neg.downloadArgs, "--concurrent-fragments")

MergeShape ==
  /\ FlagValue(neg.downloadArgs, "--merge-output-format") = "mp4"
  /\ FlagValue(neg.downloadArgs, "--postprocessor-args") = CopyOnly
  /\ HasFlag(neg.downloadArgs, "--no-part")
  /\ FlagValue(neg.downloadArgs, "--concurrent-fragments") = "4"
  /\ ~HasFlag(neg.downloadArgs, "--remux-video")

\* C37: the download arguments have the shape of the plan: audio only, no
\* remux, merge or post-processor flag; mp4 with audio present, remux to
\* mp4 with the copy-only post-processor arguments and no merge flag; mp4
\* needing a merge, merge output format mp4, the same post-processor
\* arguments, no partial file and a fragment concurrency of 4.  Every plan
\* has exactly one of the three shapes.
C37_ArgumentsFollowPlan ==
  Planned =>
    /\ neg.isAudio => AudioShape
    /\ (~neg.isAudio /\ neg.hasAudio) => RemuxShape
    /\ (~neg.isAudio /\ ~neg.hasAudio) => MergeShape
    /\ Cardinality({shape \in {"audio", "remux", "merge"} :
                      \/ shape = "audio" /\ AudioShape
                      \/ shape = "remux" /\ RemuxShape
                      \/ shape = "merge" /\ MergeShape}) = 1

\* a video-only format of stream-download is planned as a merge
C37_Witness ==
  /\ Planned
  /\ neg.endpoint = "stream"
  /\ ~neg.isAudio /\ ~neg.hasAudio
  /\ neg.formatToDownload = <<"1", "3", "7", "+bestaudio">>
  /\ MergeShape

\* C38: when executeWithCookieRetry returns usedCookies = true, the run
\* that succeeded (the last one) was started with "--cookies" and the path
\* of a cookie file among its arguments, also when a cookie file appears or
\* disappears between the existence check and the building of the arguments.
C38_UsedCookiesMeansCredentialed ==
  (ck.pc = "returned" /\ ck.usedCookies) =>
    \E i \in 1..(Len(ck.runs[Len(ck.runs)]) - 1) :
      /\ ck.runs[Len(ck.runs)][i] = "--cookies"
      /\ ck.runs[Len(ck.runs)][i + 1] \in CookieNames

\* a `progress` event carrying 100 is among evs
Has100(evs) == \E i \in ProgressEvents(evs) : evs[i].progress = 100

\* C39: in a download of two streams no `progress` event carries 100 before
\* the second stream has been seen at 100 percent: none has been written
\* when the second stream is detected, and one written later comes from a
\* line of the second stream at 100 percent.
C39_No100BeforeSecondStreamDone ==
  [][/\ SecondStreamDetected => ~Has100(events)
     /\ (firstFileComplete' /\ ~Has100(events) /\ Has100(events'))
        => currentFileProgress' = 100 * PctUnit]_vars

\* C40: an audio-only plan has hasAudio true, and so downloads the format
\* id as it is and never formatId+bestaudio, whatever the inspection
\* reported and in the fallback heuristic too.
C40_AudioOnlyHasAudio ==
  (Planned /\ neg.isAudio) =>
    /\ neg.hasAudio
    /\ neg.formatToDownload = neg.formatId

====
